---------------------------- MODULE Spec2Model ----------------------------
(***************************************************************************)
(* Neotron-IO: the PS/2 word codec and the PS/2 port engines.              *)
(*                                                                         *)
(*   SpecCodec  the word codec (encodeByte / validateWord) applied to      *)
(*              every byte and every 11-bit word                           *)
(*   SpecCb     the callback-driven engine (class Ps2 with clockEdge and   *)
(*              poll, src/unnamed/part_004)                                *)
(*   Spec       the interrupt-driven engine (template Ps2<PIN_CLK,PIN_DAT>,*)
(*              src/ps2.h)                                                 *)
(*   SpecRx     the interrupt-driven engine receiving the frames a device  *)
(*              clocks out                                                 *)
(*   SpecTx     the interrupt-driven engine sending to a device that       *)
(*              follows the host-to-device handshake                       *)
(*   SpecPoll   the poll-driven engine (class Ps2 with poll and            *)
(*              read_buffer, src/unnamed/part_005)                         *)
(*   SpecWr     the interrupt-driven engine with the passes of a           *)
(*              transmission through WaitClockHigh counted                 *)
(*   SpecAt     the interrupt-driven engine with irq() running between the *)
(*              statements of pollIdle() and readBuffer()                  *)
(*   SpecTm     the deadline arithmetic of the interrupt-driven engine     *)
(*   SpecRc     the receiver of the v0.9.0 firmware (template              *)
(*              Ps2<DAT_PIN>, src/unnamed/part_000)                        *)
(*   SpecFw     the host commands of the v0.9.0 firmware (stop_rx,         *)
(*              handle_command, start_rx)                                  *)
(*                                                                         *)
(* Every specification starts from the same Init and leaves the variables  *)
(* of the other parts unchanged.                                           *)
(***************************************************************************)
EXTENDS Integers, Sequences, FiniteSets, TLC

VARIABLES
    \* word codec harness: the call made last, its argument and its result
    cd_op, cd_byte, cd_word, cd_bit, cd_ret,
    \* callback-driven engine: the Ps2 object (its members and the pin
    \* directions its callbacks last set), the call made last and what
    \* poll() returned
    cb, cb_op, cb_ret,
    \* callback-driven engine, history: the levels sampled on the falling
    \* edges of the word in progress; the validateWord result of the last
    \* word completed since the last poll(); the last byte that passed
    \* validation since the last poll(); the levels fed since the engine
    \* was last idle with nothing pending; the poll() calls made since the
    \* last edge; whether a word in progress was ever abandoned
    g_bits, g_clean_byte, g_last_valid, g_feed, g_quiet, g_aborted,
    \* callback-driven engine, history of disable(): the validateWord
    \* result of the last word completed since the last disable() and the
    \* last poll(); whether the last disable() cut a word in progress
    g_since, g_cut,
    \* callback-driven engine, history: the poll() calls made since the last
    \* falling edge (counted up to the bit timeout)
    g_polls,
    \* interrupt-driven engine: the Ps2<PIN_CLK, PIN_DAT> object (its
    \* members and the configuration of its two pins) and micros() & 0xFFFF;
    \* the last call whose return value the application kept ("none" before
    \* the first), the data_len passed to it and the value it returned
    ps, now, ps_op, ps_arg, ps_ret,
    \* host command parser of the sketch: the statics of processInput(), the
    \* outbound queues of the two engines gKeyboard and gMouse
    inputState, inputTarget, inputByte, gKeyboard, gMouse,
    \* host command parser, history: the characters of the frame in progress
    g_frame,
    \* poll-driven engine: the Ps2 object, the levels the device puts on
    \* the clock and data pins, the call made last and what read_buffer()
    \* returned
    pd, pd_clk, pd_data, pd_op, pd_ret,
    \* poll-driven engine, history: the data levels of the clock-low phases
    \* of the word being presented; the byte whose encodeByte() word has
    \* just been presented in full (Invalid when none, or after the next
    \* read_buffer() or clock-low phase); the words presented so far
    g_pd_bits, g_pd_done, g_pd_sent,
    \* interrupt-driven engine, history of a reception: the data levels of
    \* the falling edges of the frame the device is sending (11 levels once
    \* it is complete); how that frame began ("idle": from Idle with an
    \* empty inbound queue, "after": right after the engine completed a
    \* word, "none": no frame); whether the last falling edge completed a
    \* word in the engine
    g_rx_bits, g_rx_kind, g_rx_ready,
    \* interrupt-driven engine, the device on the wire: its place in the
    \* host-to-device handshake with the clock pulses it has made, and the
    \* levels it puts on the two lines; whether a pin-change interrupt is
    \* waiting to be served; where the main loop is inside pollIdle()
    \* ("arming": the clock is driven low, the hold timeout not yet armed)
    dev, dev_clk, dev_dat, irq_pending, poll_pc,
    \* interrupt-driven engine, history of a transmission: the times the
    \* write sub-state has become WaitClockHigh since poll() started it
    g_highs,
    \* timeout harness: the Ps2 object whose timeout is armed and asked,
    \* micros() & 0xFFFF when it was armed, the num_micros armed, the
    \* microseconds gone by when hasTimedOut() was called, what it
    \* returned, and the call made last
    tm_eng, tm_s, tm_d, tm_e, tm_ret, tm_op,
    \* v0.9.0 firmware: the four PS/2 pins, the two interrupt attachments
    \* and the receivers keyboard and mouse; where loop() is in serving a
    \* host command, the command read last (its character and, once
    \* handle_command() has parsed them, the byte of its two hex digits) and
    \* the result code of handle_command()
    fw, fw_pc, fw_cmd, fw_e,
    \* v0.9.0 receiver: a Ps2<DAT_PIN> object, the call made last and what
    \* read() returned; history: the words irq() has stored that read() has
    \* not returned yet, oldest first
    rc, rc_op, rc_ret, g_unread

codecVars == <<cd_op, cd_byte, cd_word, cd_bit, cd_ret>>

cbVars == <<cb, cb_op, cb_ret, g_bits, g_clean_byte, g_last_valid, g_feed,
            g_quiet, g_aborted, g_since, g_cut, g_polls>>

psCall == <<ps_op, ps_arg, ps_ret>>

psVars == <<ps, now, ps_op, ps_arg, ps_ret>>

hostVars == <<inputState, inputTarget, inputByte, gKeyboard, gMouse, g_frame>>

pdVars == <<pd, pd_clk, pd_data, pd_op, pd_ret, g_pd_bits, g_pd_done,
            g_pd_sent>>

rxVars == <<g_rx_bits, g_rx_kind, g_rx_ready>>

devVars == <<dev, dev_clk, dev_dat, irq_pending, poll_pc>>

wrVars == <<g_highs>>

tmVars == <<tm_eng, tm_s, tm_d, tm_e, tm_ret, tm_op>>

fwVars == <<fw, fw_pc, fw_cmd, fw_e>>

rcVars == <<rc, rc_op, rc_ret, g_unread>>

vars == <<cd_op, cd_byte, cd_word, cd_bit, cd_ret,
          cb, cb_op, cb_ret, g_bits, g_clean_byte, g_last_valid, g_feed,
          g_quiet, g_aborted, g_since, g_cut, g_polls,
          ps, now, ps_op, ps_arg, ps_ret,
          inputState, inputTarget, inputByte, gKeyboard, gMouse, g_frame,
          pd, pd_clk, pd_data, pd_op, pd_ret, g_pd_bits, g_pd_done,
          g_pd_sent, g_rx_bits, g_rx_kind, g_rx_ready,
          dev, dev_clk, dev_dat, irq_pending, poll_pc,
          g_highs, tm_eng, tm_s, tm_d, tm_e, tm_ret, tm_op,
          fw, fw_pc, fw_cmd, fw_e, rc, rc_op, rc_ret, g_unread>>

-----------------------------------------------------------------------------
(* Levels, bits and 16-bit arithmetic                                      *)

LOW == 0
HIGH == 1
Levels == {LOW, HIGH}

\* the value every "int" result uses for "no byte"
Invalid == -1

Bytes == 0 .. 255
Words11 == 0 .. 2047

\* bitRead(word, bit): 1 when the bit is set, else 0
bitRead(word, bit) == (word \div (2 ^ bit)) % 2

\* a | b on uint16_t
RECURSIVE OrBits(_, _, _)
OrBits(a, b, i) ==
    IF i > 15 THEN 0
    ELSE (IF bitRead(a, i) = 1 \/ bitRead(b, i) = 1 THEN 2 ^ i ELSE 0)
         + OrBits(a, b, i + 1)

Or16(a, b) == OrBits(a, b, 0)

\* a ^ b on uint16_t
RECURSIVE XorBits(_, _, _)
XorBits(a, b, i) ==
    IF i > 15 THEN 0
    ELSE (IF bitRead(a, i) # bitRead(b, i) THEN 2 ^ i ELSE 0)
         + XorBits(a, b, i + 1)

Xor16(a, b) == XorBits(a, b, 0)

-----------------------------------------------------------------------------
(* Word codec: Ps2::encodeByte and Ps2::validateWord (identical in        *)
(* src/ps2.h and src/unnamed/part_004)                                     *)

PARITY_BIT == 9
STOP_BIT == 10
START_BIT == 0
FIRST_DATA_BIT == 1
LAST_DATA_BIT == 8
PS2_INCOMING_MASK == 2 ^ 11
PS2_OUTGOING_MASK == 2 ^ 10

\* the loop "for i = first..last: if bitRead(word, i) parity = !parity"
RECURSIVE ParityLoop(_, _, _, _)
ParityLoop(parity, word, i, last) ==
    IF i > last THEN parity
    ELSE ParityLoop(IF bitRead(word, i) = 1 THEN ~parity ELSE parity,
                    word, i + 1, last)

\* mutant: the parity flag starts false (even parity)
encodeByte_EvenParity(byte) ==
    LET parity == ParityLoop(FALSE, byte, 0, 7)
        r1 == Or16(0, (byte * 2) % 65536)
        r2 == Or16(r1, (IF parity THEN 1 ELSE 0) * (2 ^ 9))
    IN  Or16(r2, 2 ^ 10)

\* mutant: the data byte is not shifted past the start bit
encodeByte_NoShift(byte) ==
    LET parity == ParityLoop(TRUE, byte, 0, 7)
        r1 == Or16(0, byte)
        r2 == Or16(r1, (IF parity THEN 1 ELSE 0) * (2 ^ 9))
    IN  Or16(r2, 2 ^ 10)

encodeByte(byte) ==
    LET parity == ParityLoop(TRUE, byte, 0, 7)
        r1 == Or16(0, (byte * 2) % 65536)
        r2 == Or16(r1, (IF parity THEN 1 ELSE 0) * (2 ^ 9))
    IN  Or16(r2, 2 ^ 10)

\* mutant: the parity loop stops one data bit early
validateWord_ShortParity(ps2_bits) ==
    LET parity_bit == bitRead(ps2_bits, PARITY_BIT) # 0
        start_bit == bitRead(ps2_bits, START_BIT) # 0
        stop_bit == bitRead(ps2_bits, STOP_BIT) # 0
        parity == ParityLoop(parity_bit, ps2_bits, FIRST_DATA_BIT,
                             LAST_DATA_BIT - 1)
    IN  IF ~start_bit /\ parity /\ stop_bit
        THEN (ps2_bits \div 2) % 256
        ELSE Invalid

\* mutant: the start bit is not checked
validateWord_NoStart(ps2_bits) ==
    LET parity_bit == bitRead(ps2_bits, PARITY_BIT) # 0
        stop_bit == bitRead(ps2_bits, STOP_BIT) # 0
        parity == ParityLoop(parity_bit, ps2_bits, FIRST_DATA_BIT,
                             LAST_DATA_BIT)
    IN  IF parity /\ stop_bit
        THEN (ps2_bits \div 2) % 256
        ELSE Invalid

validateWord(ps2_bits) ==
    LET parity_bit == bitRead(ps2_bits, PARITY_BIT) # 0
        start_bit == bitRead(ps2_bits, START_BIT) # 0
        stop_bit == bitRead(ps2_bits, STOP_BIT) # 0
        parity == ParityLoop(parity_bit, ps2_bits, FIRST_DATA_BIT,
                             LAST_DATA_BIT)
    IN  IF ~start_bit /\ parity /\ stop_bit
        THEN (ps2_bits \div 2) % 256
        ELSE Invalid

-----------------------------------------------------------------------------
(* The codec applied to its whole domain                                   *)

CodecInit ==
    /\ cd_op = "none"
    /\ cd_byte = 0
    /\ cd_word = 0
    /\ cd_bit = 0
    /\ cd_ret = Invalid

\* word = encodeByte(b)
CodecEncode ==
    \E b \in Bytes :
        /\ cd_op = "none"
        /\ cd_op' = "encodeByte"
        /\ cd_byte' = b
        /\ cd_word' = encodeByte(b)
        /\ cd_bit' = 0
        /\ cd_ret' = Invalid
        /\ UNCHANGED <<cbVars, psVars, hostVars, pdVars, rxVars, devVars, wrVars, tmVars, fwVars, rcVars>>

\* validateWord(w) of any 11-bit word
CodecValidate ==
    \E w \in Words11 :
        /\ cd_op = "none"
        /\ cd_op' = "validateWord"
        /\ cd_byte' = 0
        /\ cd_word' = w
        /\ cd_bit' = 0
        /\ cd_ret' = validateWord(w)
        /\ UNCHANGED <<cbVars, psVars, hostVars, pdVars, rxVars, devVars, wrVars, tmVars, fwVars, rcVars>>

\* validateWord(encodeByte(b)), as tests/runner.cpp ps2_encode_bytes does
CodecRoundTrip ==
    /\ cd_op = "encodeByte"
    /\ cd_op' = "roundTrip"
    /\ cd_ret' = validateWord(cd_word)
    /\ UNCHANGED <<cd_byte, cd_word, cd_bit>>
    /\ UNCHANGED <<cbVars, psVars, hostVars, pdVars, rxVars, devVars, wrVars, tmVars, fwVars, rcVars>>

\* validateWord(encodeByte(b) ^ (1 << i))
CodecCorrupt ==
    /\ cd_op = "encodeByte"
    /\ \E i \in START_BIT .. STOP_BIT :
        /\ cd_op' = "corrupt"
        /\ cd_bit' = i
        /\ cd_word' = Xor16(cd_word, 2 ^ i)
        /\ cd_ret' = validateWord(Xor16(cd_word, 2 ^ i))
        /\ UNCHANGED cd_byte
        /\ UNCHANGED <<cbVars, psVars, hostVars, pdVars, rxVars, devVars, wrVars, tmVars, fwVars, rcVars>>

\* the harness is ready for the next call
CodecReturn ==
    /\ cd_op \in {"validateWord", "roundTrip", "corrupt"}
    /\ cd_op' = "none"
    /\ cd_byte' = 0
    /\ cd_word' = 0
    /\ cd_bit' = 0
    /\ cd_ret' = Invalid
    /\ UNCHANGED <<cbVars, psVars, hostVars, pdVars, rxVars, devVars, wrVars, tmVars, fwVars, rcVars>>

CodecNext ==
    \/ CodecEncode
    \/ CodecValidate
    \/ CodecRoundTrip
    \/ CodecCorrupt
    \/ CodecReturn

-----------------------------------------------------------------------------
(* Callback-driven engine: class Ps2 of src/unnamed/part_004.  All I/O is   *)
(* external: the caller reports every clock edge with the data level, and  *)
(* the engine sets the pin directions through four callbacks.              *)

EDGE_RISING == 0
EDGE_FALLING == 1
Edges == {EDGE_RISING, EDGE_FALLING}

\* setTimeout( 250 ) in handleClockEdgeReadingWord: the number of poll()
\* calls after which a word in progress is given up (250 in the source)
BitTimeoutPolls == 3

\* The data line may be high only while the bit cursor is at the start bit,
\* at one of the first DataBitsDriven data bits, at the parity bit or at the
\* stop bit: the words the device can put on the wire.
DataBitsDriven == 3

DrivenBits ==
    {START_BIT} \cup (FIRST_DATA_BIT .. DataBitsDriven)
        \cup {PARITY_BIT, STOP_BIT}

DrivenBytes == 0 .. (2 ^ DataBitsDriven - 1)

\* the position of the single bit set in a cursor value
BitIndex(mask) == CHOOSE i \in 0 .. 16 : mask = 2 ^ i

\* the object after construction
CbConstruct ==
    [m_state |-> "Idle",
     m_current_word |-> 0,
     m_current_word_bitmask |-> 1,
     m_valid_word |-> Invalid,
     m_timeout_count |-> 0,
     m_have_timeout |-> FALSE,
     clock |-> "input",
     data |-> "input"]

\* Ps2::setTimeout
setTimeout(e, timeout_count) ==
    [e EXCEPT !.m_timeout_count = timeout_count, !.m_have_timeout = TRUE]

\* Ps2::hasTimedOut
hasTimedOut(e) ==
    IF e.m_have_timeout THEN e.m_timeout_count = 0 ELSE FALSE

\* mutant: the accumulator keeps the bits of the word before
handleClockEdgeIdle_KeepWord(e, edge, data_bit) ==
    IF edge = EDGE_FALLING
    THEN [e EXCEPT !.m_current_word_bitmask = 2,
                   !.m_current_word =
                       Or16(e.m_current_word,
                            IF data_bit = HIGH THEN 1 ELSE 0),
                   !.m_state = "ReadingWord"]
    ELSE e

\* mutant: a word is started on either edge
handleClockEdgeIdle_AnyEdge(e, edge, data_bit) ==
    [e EXCEPT !.m_current_word_bitmask = 2,
              !.m_current_word = IF data_bit = HIGH THEN 1 ELSE 0,
              !.m_state = "ReadingWord"]

\* mutant: the cursor is left on the start bit
handleClockEdgeIdle_CursorAtStart(e, edge, data_bit) ==
    IF edge = EDGE_FALLING
    THEN [e EXCEPT !.m_current_word_bitmask = 1,
                   !.m_current_word = IF data_bit = HIGH THEN 1 ELSE 0,
                   !.m_state = "ReadingWord"]
    ELSE e

\* Ps2::handleClockEdgeIdle
handleClockEdgeIdle(e, edge, data_bit) ==
    IF edge = EDGE_FALLING
    THEN [e EXCEPT !.m_current_word_bitmask = 2,
                   !.m_current_word = IF data_bit = HIGH THEN 1 ELSE 0,
                   !.m_state = "ReadingWord"]
    ELSE e

\* mutant: the word is complete one bit early
handleClockEdgeReadingWord_TenBits(e, edge, data_bit) ==
    IF edge = EDGE_FALLING
    THEN LET word == IF data_bit = HIGH
                     THEN Or16(e.m_current_word, e.m_current_word_bitmask)
                     ELSE e.m_current_word
             mask == (e.m_current_word_bitmask * 2) % 65536
         IN  IF mask = PS2_OUTGOING_MASK
             THEN [e EXCEPT !.m_current_word = word,
                            !.m_current_word_bitmask = mask,
                            !.m_valid_word = validateWord(word),
                            !.m_state = "Idle"]
             ELSE setTimeout([e EXCEPT !.m_current_word = word,
                                       !.m_current_word_bitmask = mask],
                             BitTimeoutPolls)
    ELSE e

\* mutant: the data bits of a complete word are handed over unvalidated
handleClockEdgeReadingWord_NoValidate(e, edge, data_bit) ==
    IF edge = EDGE_FALLING
    THEN LET word == IF data_bit = HIGH
                     THEN Or16(e.m_current_word, e.m_current_word_bitmask)
                     ELSE e.m_current_word
             mask == (e.m_current_word_bitmask * 2) % 65536
         IN  IF mask = PS2_INCOMING_MASK
             THEN [e EXCEPT !.m_current_word = word,
                            !.m_current_word_bitmask = mask,
                            !.m_valid_word = (word \div 2) % 256,
                            !.m_state = "Idle"]
             ELSE setTimeout([e EXCEPT !.m_current_word = word,
                                       !.m_current_word_bitmask = mask],
                             BitTimeoutPolls)
    ELSE e

\* Ps2::handleClockEdgeReadingWord
handleClockEdgeReadingWord(e, edge, data_bit) ==
    IF edge = EDGE_FALLING
    THEN LET word == IF data_bit = HIGH
                     THEN Or16(e.m_current_word, e.m_current_word_bitmask)
                     ELSE e.m_current_word
             mask == (e.m_current_word_bitmask * 2) % 65536
         IN  IF mask = PS2_INCOMING_MASK
             THEN [e EXCEPT !.m_current_word = word,
                            !.m_current_word_bitmask = mask,
                            !.m_valid_word = validateWord(word),
                            !.m_state = "Idle"]
             ELSE setTimeout([e EXCEPT !.m_current_word = word,
                                       !.m_current_word_bitmask = mask],
                             BitTimeoutPolls)
    ELSE e

\* Ps2::handlePollReadingWord
handlePollReadingWord(e) ==
    IF hasTimedOut(e) THEN [e EXCEPT !.m_state = "Idle"] ELSE e

\* mutant: edges delivered while Disabled are handled as in Idle
clockEdge_WhileDisabled(e, edge, data_bit) ==
    CASE e.m_state \in {"Idle", "Disabled"} ->
            handleClockEdgeIdle(e, edge, data_bit)
      [] e.m_state = "ReadingWord" ->
            handleClockEdgeReadingWord(e, edge, data_bit)

\* Ps2::clockEdge
clockEdge(e, edge, data_bit) ==
    CASE e.m_state = "Idle" -> handleClockEdgeIdle(e, edge, data_bit)
      [] e.m_state = "Disabled" -> e
      [] e.m_state = "ReadingWord" ->
            handleClockEdgeReadingWord(e, edge, data_bit)

\* mutant: poll() does not clear the byte it returns
poll_NoClear(e) ==
    LET e1 == IF e.m_have_timeout /\ e.m_timeout_count > 0
              THEN [e EXCEPT !.m_timeout_count = e.m_timeout_count - 1]
              ELSE e
        e2 == IF e1.m_state = "ReadingWord"
              THEN handlePollReadingWord(e1)
              ELSE e1
    IN  [eng |-> e2, result |-> e2.m_valid_word]

\* Ps2::poll: the object afterwards and the value returned
poll(e) ==
    LET e1 == IF e.m_have_timeout /\ e.m_timeout_count > 0
              THEN [e EXCEPT !.m_timeout_count = e.m_timeout_count - 1]
              ELSE e
        e2 == IF e1.m_state = "ReadingWord"
              THEN handlePollReadingWord(e1)
              ELSE e1
    IN  [eng |-> [e2 EXCEPT !.m_valid_word = Invalid],
         result |-> e2.m_valid_word]

\* Ps2::disable
disable(e) == [e EXCEPT !.clock = "output_low", !.m_state = "Disabled"]

\* Ps2::enable
enable(e) ==
    [e EXCEPT !.clock = "input", !.data = "input", !.m_state = "Idle"]

\* the 11-bit word whose bits, from bit 0 up, are the levels of a sequence
RECURSIVE WordOf(_)
WordOf(bits) ==
    IF bits = <<>> THEN 0
    ELSE Head(bits) + 2 * WordOf(Tail(bits))

CbInit ==
    /\ cb = CbConstruct
    /\ cb_op = "none"
    /\ cb_ret = Invalid
    /\ g_bits = <<>>
    /\ g_clean_byte = Invalid
    /\ g_last_valid = Invalid
    /\ g_feed = <<>>
    /\ g_quiet = 0
    /\ g_aborted = FALSE
    /\ g_since = Invalid
    /\ g_cut = FALSE
    /\ g_polls = 0

\* the levels the data line can have at the next sampled edge
CbLevels ==
    LET pos == IF cb.m_state = "ReadingWord"
               THEN BitIndex(cb.m_current_word_bitmask)
               ELSE START_BIT
    IN  IF pos \in DrivenBits THEN Levels ELSE {LOW}

\* the caller reports a rising edge of the clock and the level of the data
\* line
CbRisingEdge ==
    /\ \E data_bit \in Levels : cb' = clockEdge(cb, EDGE_RISING, data_bit)
    /\ cb_op' = "clockEdge"
    /\ cb_ret' = Invalid
    /\ g_quiet' = 0
    /\ UNCHANGED <<g_bits, g_clean_byte, g_last_valid, g_feed, g_aborted>>
    /\ UNCHANGED <<g_since, g_cut, g_polls>>
    /\ UNCHANGED <<codecVars, psVars, hostVars, pdVars, rxVars, devVars, wrVars, tmVars, fwVars, rcVars>>

\* the caller reports a falling edge of the clock and the level of the data
\* line
CbFallingEdge ==
    \E data_bit \in CbLevels :
        LET sampled == cb.m_state \in {"Idle", "ReadingWord"}
            bits == IF cb.m_state = "Idle" THEN <<data_bit>>
                    ELSE Append(g_bits, data_bit)
            done == sampled /\ Len(bits) = 11
            byte == validateWord(WordOf(bits))
            fresh == cb.m_state = "Idle" /\ cb.m_valid_word = Invalid
        IN  /\ cb' = clockEdge(cb, EDGE_FALLING, data_bit)
            /\ cb_op' = "clockEdge"
            /\ cb_ret' = Invalid
            /\ g_bits' = IF ~sampled THEN g_bits
                         ELSE IF done THEN <<>> ELSE bits
            /\ g_clean_byte' = IF done THEN byte ELSE g_clean_byte
            /\ g_last_valid' = IF done /\ byte # Invalid THEN byte
                               ELSE g_last_valid
            /\ g_feed' = IF g_feed = <<>>
                         THEN (IF fresh THEN <<data_bit>> ELSE <<>>)
                         ELSE IF Len(g_feed) < 11
                         THEN Append(g_feed, data_bit)
                         ELSE <<>>
            /\ g_quiet' = 0
            /\ g_since' = IF done THEN byte ELSE g_since
            /\ g_polls' = 0
            /\ UNCHANGED <<g_aborted, g_cut>>
            /\ UNCHANGED <<codecVars, psVars, hostVars, pdVars, rxVars, devVars, wrVars, tmVars, fwVars, rcVars>>

\* the main loop calls poll()
CbPoll ==
    LET r == poll(cb)
    IN  /\ cb' = r.eng
        /\ cb_op' = "poll"
        /\ cb_ret' = r.result
        /\ g_bits' = IF cb.m_state = "ReadingWord" /\ r.eng.m_state = "Idle"
                     THEN <<>> ELSE g_bits
        /\ g_aborted' = (g_aborted \/ (/\ cb.m_state = "ReadingWord"
                                       /\ r.eng.m_state = "Idle"))
        /\ g_clean_byte' = Invalid
        /\ g_last_valid' = Invalid
        /\ g_feed' = <<>>
        /\ g_quiet' = IF g_quiet <= BitTimeoutPolls THEN g_quiet + 1
                      ELSE g_quiet
        /\ g_since' = Invalid
        /\ g_polls' = IF g_polls < BitTimeoutPolls THEN g_polls + 1
                      ELSE g_polls
        /\ UNCHANGED g_cut
        /\ UNCHANGED <<codecVars, psVars, hostVars, pdVars, rxVars, devVars, wrVars, tmVars, fwVars, rcVars>>

CbDisable ==
    /\ cb' = disable(cb)
    /\ cb_op' = "disable"
    /\ cb_ret' = Invalid
    /\ g_bits' = <<>>
    /\ g_aborted' = (g_aborted \/ g_bits # <<>>)
    /\ g_feed' = <<>>
    /\ g_quiet' = 0
    /\ g_since' = Invalid
    /\ g_cut' = (cb.m_state = "ReadingWord")
    /\ UNCHANGED g_polls
    /\ UNCHANGED <<g_clean_byte, g_last_valid>>
    /\ UNCHANGED <<codecVars, psVars, hostVars, pdVars, rxVars, devVars, wrVars, tmVars, fwVars, rcVars>>

CbEnable ==
    /\ cb' = enable(cb)
    /\ cb_op' = "enable"
    /\ cb_ret' = Invalid
    /\ g_bits' = <<>>
    /\ g_aborted' = (g_aborted \/ g_bits # <<>>)
    /\ g_feed' = <<>>
    /\ g_quiet' = 0
    /\ UNCHANGED <<g_since, g_cut, g_polls>>
    /\ UNCHANGED <<g_clean_byte, g_last_valid>>
    /\ UNCHANGED <<codecVars, psVars, hostVars, pdVars, rxVars, devVars, wrVars, tmVars, fwVars, rcVars>>

CbNext ==
    \/ CbRisingEdge
    \/ CbFallingEdge
    \/ CbPoll
    \/ CbDisable
    \/ CbEnable

-----------------------------------------------------------------------------
(* Interrupt-driven engine: template class Ps2<PIN_CLK, PIN_DAT> of        *)
(* src/ps2.h.  irq() runs on every change of the clock pin, poll() runs in *)
(* the main loop.  size_t is 16 bits wide on the AtMega328.                *)

\* capacity of m_in_buffer and of m_out_buffer (32 each in the source)
IN_BUFFER_SIZE == 2
OUT_BUFFER_SIZE == 2

\* the longest data a writeBuffer() call passes
MaxWriteLen == 2

\* the bytes the application writes
OutBytes == {237}

\* The data line may be high only while the bit cursor is at one of these
\* positions: the words the device can put on the wire.
PsDrivenBits == {START_BIT, FIRST_DATA_BIT, PARITY_BIT, STOP_BIT}

\* the steps in which micros() advances between two calls
TickSteps == {2 ^ 15}

PIN_CLK == "clk"
PIN_DAT == "dat"

\* the object after construction
PsConstruct ==
    [m_state |-> "Idle",
     m_write_state |-> "HoldingClock",
     m_last_clk |-> HIGH,
     m_internal_timeout |-> FALSE,
     m_in_buffer |-> <<>>,
     m_out_buffer |-> <<>>,
     m_current_word |-> 0,
     m_current_word_bitmask |-> 1,
     m_timeout |-> 0,
     clk_mode |-> "input", clk_port |-> HIGH,
     dat_mode |-> "input", dat_port |-> HIGH]

\* fastPinConfig(pin, false, true): input with the pull-up on
fastInputPullup(e, pin) ==
    IF pin = PIN_CLK
    THEN [e EXCEPT !.clk_mode = "input", !.clk_port = HIGH]
    ELSE [e EXCEPT !.dat_mode = "input", !.dat_port = HIGH]

\* fastPinConfig(pin, true, false): output, driven low
fastOutputLow(e, pin) ==
    IF pin = PIN_CLK
    THEN [e EXCEPT !.clk_mode = "output", !.clk_port = LOW]
    ELSE [e EXCEPT !.dat_mode = "output", !.dat_port = LOW]

\* fastDigitalWrite(pin, level): the port bit, the direction is kept
fastDigitalWrite(e, pin, level) ==
    IF pin = PIN_CLK
    THEN [e EXCEPT !.clk_port = level]
    ELSE [e EXCEPT !.dat_port = level]

\* fastDigitalRead(pin): low when the engine drives the line low, else the
\* level the device and the pull-up give the line
fastDigitalRead(e, pin, ext) ==
    IF pin = PIN_CLK
    THEN (IF e.clk_mode = "output" /\ e.clk_port = LOW THEN LOW ELSE ext)
    ELSE (IF e.dat_mode = "output" /\ e.dat_port = LOW THEN LOW ELSE ext)

\* RingBuf: isFull, isEmpty, push (refused when full), pop, peek
RingBuf_isFull(buf, maxSize) == Len(buf) >= maxSize
RingBuf_isEmpty(buf) == Len(buf) = 0
RingBuf_push(buf, maxSize, x) ==
    IF Len(buf) < maxSize THEN Append(buf, x) ELSE buf
RingBuf_pop(buf) == IF Len(buf) = 0 THEN buf ELSE Tail(buf)
RingBuf_peek(buf) == Head(buf)

\* Ps2::isActive
isActive(e) == e.m_state = "ReadingWord" \/ e.m_state = "WritingWord"

\* Ps2::setInternalTimeout
setInternalTimeout(e, t, num_micros) ==
    [e EXCEPT !.m_timeout = (t + num_micros) % 65536,
              !.m_internal_timeout = TRUE]

\* Ps2::setExternalTimeout
setExternalTimeout(e, t, num_micros) ==
    [setInternalTimeout(e, t, num_micros) EXCEPT !.m_internal_timeout = FALSE]

\* (int16_t) of a 16-bit value
Int16(x) == IF x % 65536 >= 32768 THEN (x % 65536) - 65536 ELSE x % 65536

\* mutant: the deadline is compared without the signed difference
Ps2_hasTimedOut_Unsigned(e, t) ==
    IF e.m_timeout <= t
    THEN [eng |-> [e EXCEPT !.m_timeout = 0], result |-> TRUE]
    ELSE [eng |-> e, result |-> FALSE]

\* Ps2::hasTimedOut: the object afterwards and the value returned
Ps2_hasTimedOut(e, t) ==
    LET delta == Int16(e.m_timeout - t)
    IN  IF delta <= 0
        THEN [eng |-> [e EXCEPT !.m_timeout = 0], result |-> TRUE]
        ELSE [eng |-> e, result |-> FALSE]

\* mutant: disable() keeps the word in progress
Ps2_disable_KeepWord(e) ==
    [fastOutputLow(e, PIN_CLK) EXCEPT !.m_state = "Disabled"]

\* Ps2::disable
Ps2_disable(e) ==
    [fastOutputLow(e, PIN_CLK) EXCEPT !.m_state = "Disabled",
                                      !.m_current_word = 0,
                                      !.m_current_word_bitmask = 1]

\* Ps2::renable
renable(e) ==
    [fastInputPullup(fastInputPullup(e, PIN_CLK), PIN_DAT)
        EXCEPT !.m_state = "Idle",
               !.m_current_word = 0,
               !.m_current_word_bitmask = 1]

\* Ps2::writeBuffer: the object afterwards and the values the call can
\* return.  The accepting path flows off the end of the function without a
\* return statement, so the caller reads whatever the return register
\* holds: true or false.
writeBuffer(e, data) ==
    IF Len(data) + Len(e.m_out_buffer) > OUT_BUFFER_SIZE
    THEN [eng |-> e, results |-> {FALSE}]
    ELSE [eng |-> [e EXCEPT !.m_out_buffer = e.m_out_buffer \o data],
          results |-> BOOLEAN]

\* mutant: the newest byte is taken instead of the oldest
readBuffer_Newest(e) ==
    IF RingBuf_isEmpty(e.m_in_buffer)
    THEN [eng |-> e, result |-> Invalid]
    ELSE LET n == Len(e.m_in_buffer)
             e1 == [e EXCEPT !.m_in_buffer = SubSeq(e.m_in_buffer, 1, n - 1)]
         IN  [eng |-> IF e1.m_state = "BufferFull" THEN renable(e1) ELSE e1,
              result |-> e.m_in_buffer[n]]

\* mutant: the port is not re-enabled when a byte is taken from a full queue
readBuffer_NoRenable(e) ==
    IF RingBuf_isEmpty(e.m_in_buffer)
    THEN [eng |-> e, result |-> Invalid]
    ELSE [eng |-> [e EXCEPT !.m_in_buffer = RingBuf_pop(e.m_in_buffer)],
          result |-> Head(e.m_in_buffer)]

\* Ps2::readBuffer: the object afterwards and the value returned
readBuffer(e) ==
    IF RingBuf_isEmpty(e.m_in_buffer)
    THEN [eng |-> e, result |-> Invalid]
    ELSE LET e1 == [e EXCEPT !.m_in_buffer = RingBuf_pop(e.m_in_buffer)]
         IN  [eng |-> IF e1.m_state = "BufferFull" THEN renable(e1) ELSE e1,
              result |-> Head(e.m_in_buffer)]

\* Ps2::pollIdle
\* mutant: the start bit is not skipped
pollIdle_ClockLow_StartBit(e) ==
    LET b == RingBuf_peek(e.m_out_buffer)
        e1 == [e EXCEPT !.m_state = "WritingWord",
                        !.m_write_state = "HoldingClock",
                        !.m_current_word = encodeByte(b),
                        !.m_current_word_bitmask = 1]
    IN  fastOutputLow(e1, PIN_CLK)

\* Ps2::pollIdle with a word waiting, up to and including the statement
\* that drives the clock line low
pollIdle_ClockLow(e) ==
    LET b == RingBuf_peek(e.m_out_buffer)
        e1 == [e EXCEPT !.m_state = "WritingWord",
                        !.m_write_state = "HoldingClock",
                        !.m_current_word = encodeByte(b),
                        !.m_current_word_bitmask = 2]
    IN  fastOutputLow(e1, PIN_CLK)

pollIdle(e, t) ==
    IF ~RingBuf_isEmpty(e.m_out_buffer)
    THEN setInternalTimeout(pollIdle_ClockLow(e), t, 150)
    ELSE e

\* Ps2::irqIdle
irqIdle(e) ==
    IF e.m_last_clk = LOW
    THEN [e EXCEPT !.m_current_word_bitmask = 1, !.m_state = "ReadingWord"]
    ELSE e

\* Ps2::isEdge: the object afterwards and the value returned
isEdge(e, clk) ==
    LET kb_clk_pin == fastDigitalRead(e, PIN_CLK, clk)
    IN  [eng |-> [e EXCEPT !.m_last_clk = kb_clk_pin],
         result |-> kb_clk_pin # e.m_last_clk]

\* mutant: an aborted transmission removes the byte from the queue
pollWritingWord_PopOnAbort(e, t) ==
    IF ~e.m_internal_timeout
    THEN LET h == Ps2_hasTimedOut(e, t)
         IN  IF h.result
             THEN renable([h.eng EXCEPT !.m_out_buffer = RingBuf_pop(@)])
             ELSE h.eng
    ELSE e

\* mutant: the expiry of a hold timeout aborts the transmission too
pollWritingWord_AnyTimeout(e, t) ==
    LET h == Ps2_hasTimedOut(e, t)
    IN  IF h.result THEN renable(h.eng) ELSE h.eng

\* Ps2::pollWritingWord
pollWritingWord(e, t) ==
    IF ~e.m_internal_timeout
    THEN LET h == Ps2_hasTimedOut(e, t)
         IN  IF h.result THEN renable(h.eng) ELSE h.eng
    ELSE e

\* m_current_word & m_current_word_bitmask, as a condition
WordBitSet(word, mask) ==
    \E i \in 0 .. 15 : mask = 2 ^ i /\ bitRead(word, i) = 1

\* mutant: the cursor is advanced before the bit is put on the data line
irqWritingWord_ShiftFirst(e, t, clk, dat) ==
    LET clk_pin == fastDigitalRead(e, PIN_CLK, clk)
        dat_pin == fastDigitalRead(e, PIN_DAT, dat)
    IN  CASE e.m_write_state = "HoldingClock" ->
               LET h == Ps2_hasTimedOut(e, t)
               IN  IF h.result
                   THEN fastInputPullup(
                            fastOutputLow(
                                [h.eng EXCEPT !.m_write_state = "WaitClockLow"],
                                PIN_DAT),
                            PIN_CLK)
                   ELSE h.eng
          [] e.m_write_state = "WaitClockLow" ->
               IF clk_pin = LOW
               THEN IF e.m_current_word_bitmask = PS2_OUTGOING_MASK
                    THEN setExternalTimeout(
                             [fastInputPullup(e, PIN_DAT)
                                 EXCEPT !.m_write_state = "WaitDataLow"],
                             t, 1500)
                    ELSE LET bit == IF WordBitSet(e.m_current_word,
                                                  e.m_current_word_bitmask
                                                      * 2)
                                    THEN HIGH ELSE LOW
                         IN  setExternalTimeout(
                                 [fastDigitalWrite(e, PIN_DAT, bit)
                                     EXCEPT !.m_current_word_bitmask =
                                                (@ * 2) % 65536,
                                            !.m_write_state = "WaitClockHigh"],
                                 t, 1500)
               ELSE e
          [] e.m_write_state = "WaitClockHigh" ->
               IF clk_pin = HIGH
               THEN setExternalTimeout(
                        [e EXCEPT !.m_write_state = "WaitClockLow"], t, 1500)
               ELSE e
          [] e.m_write_state = "WaitDataLow" ->
               IF dat_pin = LOW
               THEN setExternalTimeout(
                        [e EXCEPT !.m_write_state = "WaitFinalClockLow"],
                        t, 1500)
               ELSE e
          [] e.m_write_state = "WaitFinalClockLow" ->
               IF clk_pin = LOW
               THEN setExternalTimeout(
                        [e EXCEPT !.m_write_state = "WaitForRelease"], t, 1500)
               ELSE e
          [] e.m_write_state = "WaitForRelease" ->
               IF clk_pin = HIGH /\ dat_pin = HIGH
               THEN renable([e EXCEPT !.m_out_buffer =
                                          RingBuf_pop(e.m_out_buffer)])
               ELSE e

\* Ps2::irqWritingWord
irqWritingWord(e, t, clk, dat) ==
    LET clk_pin == fastDigitalRead(e, PIN_CLK, clk)
        dat_pin == fastDigitalRead(e, PIN_DAT, dat)
    IN  CASE e.m_write_state = "HoldingClock" ->
               LET h == Ps2_hasTimedOut(e, t)
               IN  IF h.result
                   THEN fastInputPullup(
                            fastOutputLow(
                                [h.eng EXCEPT !.m_write_state = "WaitClockLow"],
                                PIN_DAT),
                            PIN_CLK)
                   ELSE h.eng
          [] e.m_write_state = "WaitClockLow" ->
               IF clk_pin = LOW
               THEN IF e.m_current_word_bitmask = PS2_OUTGOING_MASK
                    THEN setExternalTimeout(
                             [fastInputPullup(e, PIN_DAT)
                                 EXCEPT !.m_write_state = "WaitDataLow"],
                             t, 1500)
                    ELSE LET bit == IF WordBitSet(e.m_current_word,
                                                  e.m_current_word_bitmask)
                                    THEN HIGH ELSE LOW
                         IN  setExternalTimeout(
                                 [fastDigitalWrite(e, PIN_DAT, bit)
                                     EXCEPT !.m_current_word_bitmask =
                                                (@ * 2) % 65536,
                                            !.m_write_state = "WaitClockHigh"],
                                 t, 1500)
               ELSE e
          [] e.m_write_state = "WaitClockHigh" ->
               IF clk_pin = HIGH
               THEN setExternalTimeout(
                        [e EXCEPT !.m_write_state = "WaitClockLow"], t, 1500)
               ELSE e
          [] e.m_write_state = "WaitDataLow" ->
               IF dat_pin = LOW
               THEN setExternalTimeout(
                        [e EXCEPT !.m_write_state = "WaitFinalClockLow"],
                        t, 1500)
               ELSE e
          [] e.m_write_state = "WaitFinalClockLow" ->
               IF clk_pin = LOW
               THEN setExternalTimeout(
                        [e EXCEPT !.m_write_state = "WaitForRelease"], t, 1500)
               ELSE e
          [] e.m_write_state = "WaitForRelease" ->
               IF clk_pin = HIGH /\ dat_pin = HIGH
               THEN renable([e EXCEPT !.m_out_buffer =
                                          RingBuf_pop(e.m_out_buffer)])
               ELSE e

\* Ps2::pollReadingWord: its body is commented out
pollReadingWord(e) == e

\* mutant: a full queue does not inhibit the port
irqReadingWord_NoInhibit(e, t, dat) ==
    IF e.m_last_clk = LOW
    THEN LET word == IF fastDigitalRead(e, PIN_DAT, dat) = HIGH
                     THEN Or16(e.m_current_word, e.m_current_word_bitmask)
                     ELSE e.m_current_word
             mask == (e.m_current_word_bitmask * 2) % 65536
             e1 == [e EXCEPT !.m_current_word = word,
                             !.m_current_word_bitmask = mask]
             result == validateWord(word)
             stored == ~RingBuf_isFull(e1.m_in_buffer, IN_BUFFER_SIZE)
             e2 == [e1 EXCEPT !.m_in_buffer =
                                  RingBuf_push(@, IN_BUFFER_SIZE, result),
                              !.m_current_word_bitmask = 1]
         IN  IF mask = PS2_INCOMING_MASK /\ result >= 0
             THEN [eng |-> setExternalTimeout(e2, t, 2500),
                   push |-> IF stored THEN "stored" ELSE "rejected"]
             ELSE [eng |-> setExternalTimeout(e1, t, 2500), push |-> "none"]
    ELSE [eng |-> e, push |-> "none"]

\* Ps2::irqReadingWord: the object afterwards and what m_in_buffer.push()
\* did ("none" when it was not called)
irqReadingWord(e, t, dat) ==
    IF e.m_last_clk = LOW
    THEN LET word == IF fastDigitalRead(e, PIN_DAT, dat) = HIGH
                     THEN Or16(e.m_current_word, e.m_current_word_bitmask)
                     ELSE e.m_current_word
             mask == (e.m_current_word_bitmask * 2) % 65536
             e1 == [e EXCEPT !.m_current_word = word,
                             !.m_current_word_bitmask = mask]
             result == validateWord(word)
             stored == ~RingBuf_isFull(e1.m_in_buffer, IN_BUFFER_SIZE)
             e2 == [e1 EXCEPT !.m_in_buffer =
                                  RingBuf_push(@, IN_BUFFER_SIZE, result)]
             e3 == IF RingBuf_isFull(e2.m_in_buffer, IN_BUFFER_SIZE)
                   THEN [fastOutputLow(e2, PIN_CLK)
                            EXCEPT !.m_state = "BufferFull",
                                   !.m_current_word = 0,
                                   !.m_current_word_bitmask = 1]
                   ELSE e2
             e4 == [e3 EXCEPT !.m_current_word_bitmask = 1]
         IN  IF mask = PS2_INCOMING_MASK /\ result >= 0
             THEN [eng |-> setExternalTimeout(e4, t, 2500),
                   push |-> IF stored THEN "stored" ELSE "rejected"]
             ELSE [eng |-> setExternalTimeout(e1, t, 2500), push |-> "none"]
    ELSE [eng |-> e, push |-> "none"]

\* Ps2::irq: the object afterwards and what m_in_buffer.push() did
irq(e, t, clk, dat) ==
    LET ed == isEdge(e, clk)
        e1 == ed.eng
    IN  IF ed.result
        THEN CASE e1.m_state = "Idle" -> [eng |-> irqIdle(e1), push |-> "none"]
               [] e1.m_state \in {"BufferFull", "Disabled"} ->
                     [eng |-> e1, push |-> "none"]
               [] e1.m_state = "WritingWord" ->
                     [eng |-> irqWritingWord(e1, t, clk, dat), push |-> "none"]
               [] e1.m_state = "ReadingWord" -> irqReadingWord(e1, t, dat)
        ELSE [eng |-> e1, push |-> "none"]

\* mutant: a transmission is started while a word is being received
Ps2_poll_FromReading(e, t) ==
    CASE e.m_state \in {"Idle", "ReadingWord"} -> pollIdle(e, t)
      [] e.m_state \in {"BufferFull", "Disabled"} -> e
      [] e.m_state = "WritingWord" -> pollWritingWord(e, t)

\* Ps2::poll
Ps2_poll(e, t) ==
    CASE e.m_state = "Idle" -> pollIdle(e, t)
      [] e.m_state \in {"BufferFull", "Disabled"} -> e
      [] e.m_state = "WritingWord" -> pollWritingWord(e, t)
      [] e.m_state = "ReadingWord" -> pollReadingWord(e)

PsInit ==
    /\ ps = PsConstruct
    /\ now = 0
    /\ ps_op = "none"
    /\ ps_arg = 0
    /\ ps_ret = Invalid

\* the levels the data line can have when irq() reads it
PsDatLevels ==
    IF ps.m_state = "ReadingWord"
    THEN (IF \E i \in PsDrivenBits : ps.m_current_word_bitmask = 2 ^ i
          THEN Levels ELSE {LOW})
    ELSE Levels

\* the pin-change interrupt: irq() with the levels of the two lines
PsIrq ==
    \E clk \in Levels, dat \in PsDatLevels :
        /\ ps' = irq(ps, now, clk, dat).eng
        /\ UNCHANGED <<now, psCall, codecVars, cbVars, hostVars, pdVars, rxVars, devVars, wrVars, tmVars, fwVars, rcVars>>

\* the main loop calls poll()
PsPoll ==
    /\ ps' = Ps2_poll(ps, now)
    /\ UNCHANGED <<now, psCall, codecVars, cbVars, hostVars, pdVars, rxVars, devVars, wrVars, tmVars, fwVars, rcVars>>

\* the main loop calls readBuffer()
PsReadBuffer ==
    /\ ps' = readBuffer(ps).eng
    /\ UNCHANGED <<now, psCall, codecVars, cbVars, hostVars, pdVars, rxVars, devVars, wrVars, tmVars, fwVars, rcVars>>

\* the application calls writeBuffer(data, data_len)
PsWriteBuffer ==
    \E n \in 0 .. MaxWriteLen :
        \E data \in [1 .. n -> OutBytes] :
            /\ ps' = writeBuffer(ps, data).eng
            /\ UNCHANGED <<now, psCall, codecVars, cbVars, hostVars, pdVars, rxVars, devVars, wrVars, tmVars, fwVars, rcVars>>

PsDisable ==
    /\ ps' = Ps2_disable(ps)
    /\ UNCHANGED <<now, psCall, codecVars, cbVars, hostVars, pdVars, rxVars, devVars, wrVars, tmVars, fwVars, rcVars>>

PsRenable ==
    /\ ps' = renable(ps)
    /\ UNCHANGED <<now, psCall, codecVars, cbVars, hostVars, pdVars, rxVars, devVars, wrVars, tmVars, fwVars, rcVars>>

\* time passes: micros() & 0xFFFF advances and wraps
Tick ==
    \E step \in TickSteps :
        /\ now' = (now + step) % 65536
        /\ UNCHANGED <<ps, psCall, codecVars, cbVars, hostVars, pdVars, rxVars, devVars, wrVars, tmVars, fwVars, rcVars>>

\* the data the application passes to writeBuffer() when it keeps the
\* return value
ApiOutBytes == {237, 244}

\* the application calls readBuffer() and keeps what it returned
ApiReadBuffer ==
    /\ ps' = readBuffer(ps).eng
    /\ ps_op' = "readBuffer"
    /\ ps_arg' = 0
    /\ ps_ret' = readBuffer(ps).result
    /\ UNCHANGED <<now, codecVars, cbVars, hostVars, pdVars, rxVars, devVars, wrVars, tmVars, fwVars, rcVars>>

\* the application calls writeBuffer(data, data_len) and keeps what it
\* returned
ApiWriteBuffer ==
    \E n \in 0 .. MaxWriteLen :
        \E data \in [1 .. n -> ApiOutBytes] :
            /\ ps' = writeBuffer(ps, data).eng
            /\ ps_op' = "writeBuffer"
            /\ ps_arg' = n
            /\ ps_ret' \in writeBuffer(ps, data).results
            /\ UNCHANGED <<now, codecVars, cbVars, hostVars, pdVars, rxVars, devVars, wrVars, tmVars, fwVars, rcVars>>

\* the interrupt-driven engine with an application that keeps return values
ApiNext ==
    \/ PsIrq
    \/ PsPoll
    \/ ApiReadBuffer
    \/ ApiWriteBuffer

PsNext ==
    \/ PsIrq
    \/ PsPoll
    \/ PsReadBuffer
    \/ PsWriteBuffer
    \/ PsDisable
    \/ PsRenable
    \/ Tick

-----------------------------------------------------------------------------
(* Host command parser: processInput() of src/Neotron-IO.ino, fed with the *)
(* characters the host sends, and the two engines it writes to.            *)

\* the character codes processInput() compares and computes with
Ascii ==
    ("NUL" :> 0) @@ ("LF" :> 10) @@ ("CR" :> 13) @@ ("/" :> 47) @@
    ("0" :> 48) @@ ("7" :> 55) @@ ("9" :> 57) @@ (":" :> 58) @@
    ("@" :> 64) @@ ("A" :> 65) @@ ("F" :> 70) @@ ("G" :> 71) @@
    ("K" :> 75) @@ ("M" :> 77) @@ ("BQ" :> 96) @@ ("a" :> 97) @@
    ("c" :> 99) @@ ("f" :> 102) @@ ("g" :> 103)

\* the characters the host sends
HostChars ==
    {"K", "M", "LF", "CR", "7", "F", "c", "/", ":", "@", "G", "BQ", "g"}

\* the hexadecimal digit a character is, or Invalid
HexNibble(inputChar) ==
    LET c == Ascii[inputChar]
    IN  IF c >= Ascii["0"] /\ c <= Ascii["9"] THEN c - Ascii["0"]
        ELSE IF c >= Ascii["A"] /\ c <= Ascii["F"] THEN 10 + c - Ascii["A"]
        ELSE IF c >= Ascii["a"] /\ c <= Ascii["f"] THEN 10 + c - Ascii["a"]
        ELSE Invalid

\* mutant: the command letter is not remembered
processInput_NoTarget(p, inputChar) ==
    CASE p.inputState = "WantCommand" ->
            [p |-> IF inputChar \in {"K", "M"}
                   THEN [p EXCEPT !.inputState = "WantHiNibble"]
                   ELSE p,
             calls |-> <<>>]
      [] p.inputState = "WantHiNibble" ->
            [p |-> IF HexNibble(inputChar) # Invalid
                   THEN [p EXCEPT !.inputByte =
                                      (HexNibble(inputChar) * 16) % 256,
                                  !.inputState = "WantLoNibble"]
                   ELSE [p EXCEPT !.inputState = "WantCommand"],
             calls |-> <<>>]
      [] p.inputState = "WantLoNibble" ->
            [p |-> IF HexNibble(inputChar) # Invalid
                   THEN [p EXCEPT !.inputByte =
                                      Or16(@, HexNibble(inputChar)),
                                  !.inputState = "WantNewline"]
                   ELSE [p EXCEPT !.inputState = "WantCommand"],
             calls |-> <<>>]
      [] p.inputState = "WantNewline" ->
            [p |-> [p EXCEPT !.inputState = "WantCommand"],
             calls |-> IF inputChar \in {"CR", "LF"}
                       THEN (IF p.inputTarget = "K"
                             THEN <<[engine |-> "gKeyboard",
                                     data |-> <<p.inputByte>>]>>
                             ELSE IF p.inputTarget = "M"
                             THEN <<[engine |-> "gKeyboard",
                                     data |-> <<p.inputByte>>]>>
                             ELSE <<>>)
                       ELSE <<>>]

\* processInput: the statics afterwards and the writeBuffer() calls made
processInput(p, inputChar) ==
    CASE p.inputState = "WantCommand" ->
            [p |-> IF inputChar \in {"K", "M"}
                   THEN [p EXCEPT !.inputTarget = inputChar,
                                  !.inputState = "WantHiNibble"]
                   ELSE p,
             calls |-> <<>>]
      [] p.inputState = "WantHiNibble" ->
            [p |-> IF HexNibble(inputChar) # Invalid
                   THEN [p EXCEPT !.inputByte =
                                      (HexNibble(inputChar) * 16) % 256,
                                  !.inputState = "WantLoNibble"]
                   ELSE [p EXCEPT !.inputState = "WantCommand"],
             calls |-> <<>>]
      [] p.inputState = "WantLoNibble" ->
            [p |-> IF HexNibble(inputChar) # Invalid
                   THEN [p EXCEPT !.inputByte =
                                      Or16(@, HexNibble(inputChar)),
                                  !.inputState = "WantNewline"]
                   ELSE [p EXCEPT !.inputState = "WantCommand"],
             calls |-> <<>>]
      [] p.inputState = "WantNewline" ->
            [p |-> [p EXCEPT !.inputState = "WantCommand"],
             calls |-> IF inputChar \in {"CR", "LF"}
                       THEN (IF p.inputTarget = "K"
                             THEN <<[engine |-> "gKeyboard",
                                     data |-> <<p.inputByte>>]>>
                             ELSE IF p.inputTarget = "M"
                             THEN <<[engine |-> "gKeyboard",
                                     data |-> <<p.inputByte>>]>>
                             ELSE <<>>)
                       ELSE <<>>]

\* the statics of processInput() as one value
HostStatics ==
    [inputState |-> inputState, inputTarget |-> inputTarget,
     inputByte |-> inputByte]

\* an engine after the writeBuffer() calls among `calls` made on it
RECURSIVE ApplyCalls(_, _, _)
ApplyCalls(e, name, calls) ==
    IF calls = <<>> THEN e
    ELSE ApplyCalls(IF Head(calls).engine = name
                    THEN writeBuffer(e, Head(calls).data).eng
                    ELSE e,
                    name, Tail(calls))

\* the frame in progress after one more character: a command letter, then
\* up to two hexadecimal digits; anything else, and the character after the
\* digits, ends it
FrameAfter(frame, inputChar) ==
    IF frame = <<>>
    THEN (IF inputChar \in {"K", "M"} THEN <<inputChar>> ELSE <<>>)
    ELSE IF Len(frame) < 3 /\ HexNibble(inputChar) # Invalid
    THEN Append(frame, inputChar)
    ELSE <<>>

HostInit ==
    /\ inputState = "WantCommand"
    /\ inputTarget = "NUL"
    /\ inputByte = 0
    /\ gKeyboard = PsConstruct
    /\ gMouse = PsConstruct
    /\ g_frame = <<>>

\* processInput( inputChar ) with what its writeBuffer() calls do
HostInputChar(inputChar) ==
    LET r == processInput(HostStatics, inputChar)
    IN  /\ inputState' = r.p.inputState
        /\ inputTarget' = r.p.inputTarget
        /\ inputByte' = r.p.inputByte
        /\ gKeyboard' = ApplyCalls(gKeyboard, "gKeyboard", r.calls)
        /\ gMouse' = ApplyCalls(gMouse, "gMouse", r.calls)
        /\ g_frame' = FrameAfter(g_frame, inputChar)
        /\ UNCHANGED <<codecVars, cbVars, psVars, pdVars, rxVars, devVars, wrVars, tmVars, fwVars, rcVars>>

\* loop(): a character from the host is passed to processInput()
HostInput ==
    \E inputChar \in HostChars : HostInputChar(inputChar)

\* an engine has sent the byte at the front of its outbound queue
HostSent ==
    \E name \in {"gKeyboard", "gMouse"} :
        LET e == IF name = "gKeyboard" THEN gKeyboard ELSE gMouse
            e1 == [e EXCEPT !.m_out_buffer = RingBuf_pop(@)]
        IN  /\ ~RingBuf_isEmpty(e.m_out_buffer)
            /\ gKeyboard' = IF name = "gKeyboard" THEN e1 ELSE gKeyboard
            /\ gMouse' = IF name = "gMouse" THEN e1 ELSE gMouse
            /\ UNCHANGED <<inputState, inputTarget, inputByte, g_frame>>
            /\ UNCHANGED <<codecVars, cbVars, psVars, pdVars, rxVars, devVars, wrVars, tmVars, fwVars, rcVars>>

HostNext ==
    \/ HostInput
    \/ HostSent

-----------------------------------------------------------------------------
(* Poll-driven engine: class Ps2 with poll() and read_buffer()             *)
(* (src/unnamed/part_005, the first class of the file)                     *)

\* scaled from 32 (two bytes are enough to tell the newest from the oldest)
BUFFER_SIZE == 2
BITS_IN_PS2_WORD == 11
TIMEOUT_POLLS == 800

\* the words the device presents before it falls silent
PdMaxWords == 2

\* (uint16_t)(1 << n): the bit leaves the 16-bit collector from n = 16 on
Shl16(n) == IF n >= 16 THEN 0 ELSE 2 ^ n

\* the object after construction; m_buffer holds the m_buffer_used bytes in
\* use, oldest first
PdConstruct ==
    [m_state |-> "Idle",
     m_last_clk |-> TRUE,
     m_bitcollector |-> 0,
     m_num_bits |-> 0,
     m_timeout |-> TIMEOUT_POLLS,
     m_buffer |-> <<>>,
     clk_mode |-> "INPUT_PULLUP"]

validate_word(ps2_bits) ==
    LET parity_bit == bitRead(ps2_bits, PARITY_BIT) # 0
        start_bit == bitRead(ps2_bits, START_BIT) # 0
        stop_bit == bitRead(ps2_bits, STOP_BIT) # 0
        parity == ParityLoop(parity_bit, ps2_bits, FIRST_DATA_BIT,
                             LAST_DATA_BIT)
    IN  IF ~start_bit /\ parity /\ stop_bit
        THEN (ps2_bits \div 2) % 256
        ELSE Invalid

Pd_disable(e) ==
    [e EXCEPT !.clk_mode = "OUTPUT_LOW", !.m_state = "Disabled"]

Pd_renable(e) ==
    [e EXCEPT !.clk_mode = "INPUT_PULLUP", !.m_state = "Idle",
              !.m_bitcollector = 0, !.m_num_bits = 0]

\* digitalRead(m_pin_clk): low when the device or the engine holds it low
PdReadClk(e, clk) == clk = HIGH /\ e.clk_mode = "INPUT_PULLUP"

poll_active(e, clk, data) ==
    LET kb_clk_pin == PdReadClk(e, clk)
    IN  IF kb_clk_pin # e.m_last_clk
        THEN LET e1 ==
                   IF ~kb_clk_pin
                   THEN LET coll == IF data = HIGH
                                    THEN Or16(e.m_bitcollector,
                                              Shl16(e.m_num_bits))
                                    ELSE e.m_bitcollector
                            n == e.m_num_bits + 1
                            e2 == [e EXCEPT !.m_bitcollector = coll,
                                            !.m_num_bits = n]
                            result == validate_word(coll)
                        IN  IF n = BITS_IN_PS2_WORD /\ result >= 0
                            THEN LET e3 == [e2 EXCEPT !.m_buffer =
                                                Append(@, result)]
                                 IN  IF Len(e3.m_buffer) = BUFFER_SIZE
                                     THEN [Pd_disable(e3) EXCEPT
                                              !.m_state = "BufferFull"]
                                     ELSE e3
                            ELSE e2
                   ELSE e
             IN  [e1 EXCEPT !.m_timeout = TIMEOUT_POLLS,
                            !.m_last_clk = kb_clk_pin]
        ELSE LET t == (e.m_timeout - 1) % 65536
             IN  IF t = 0
                 THEN [e EXCEPT !.m_timeout = t, !.m_state = "Idle",
                                !.m_num_bits = 0, !.m_bitcollector = 0]
                 ELSE [e EXCEPT !.m_timeout = t]

poll_idle(e, clk, data) ==
    IF PdReadClk(e, clk) # e.m_last_clk
    THEN poll_active(e, clk, data)
    ELSE e

Pd_poll(e, clk, data) ==
    CASE e.m_state = "Idle" -> poll_idle(e, clk, data)
      [] e.m_state = "Active" -> poll_active(e, clk, data)
      [] OTHER -> e

read_buffer(e) ==
    IF Len(e.m_buffer) = 0
    THEN [eng |-> e, result |-> Invalid]
    ELSE LET used == Len(e.m_buffer) - 1
             e1 == [e EXCEPT !.m_buffer = SubSeq(@, 1, used)]
         IN  [eng |-> IF e.m_state = "BufferFull" THEN Pd_renable(e1)
                      ELSE e1,
              result |-> e.m_buffer[used + 1]]

PdInit ==
    /\ pd = PdConstruct
    /\ pd_clk = HIGH
    /\ pd_data = HIGH
    /\ pd_op = "none"
    /\ pd_ret = Invalid
    /\ g_pd_bits = <<>>
    /\ g_pd_done = Invalid
    /\ g_pd_sent = 0

\* the byte b whose word encodeByte(b) the 11 levels spell, else Invalid
PdWordByte(bits) ==
    LET w == WordOf(bits)
        b == (w \div 2) % 256
    IN  IF Len(bits) = BITS_IN_PS2_WORD /\ encodeByte(b) = w
        THEN b ELSE Invalid

\* the device pulls the clock low with the next bit on the data pin, and
\* the main loop polls
PdClockLow ==
    /\ pd_clk = HIGH
    /\ pd.m_state = "Idle"
    /\ g_pd_sent < PdMaxWords
    /\ \E level \in (IF Len(g_pd_bits) \in DrivenBits THEN Levels
                     ELSE {LOW}) :
          LET bits == Append(g_pd_bits, level)
              full == Len(bits) = BITS_IN_PS2_WORD
          IN  /\ pd_clk' = LOW
              /\ pd_data' = level
              /\ pd' = Pd_poll(pd, LOW, level)
              /\ g_pd_bits' = IF full THEN <<>> ELSE bits
              /\ g_pd_done' = PdWordByte(bits)
              /\ g_pd_sent' = IF full THEN g_pd_sent + 1 ELSE g_pd_sent
    /\ pd_op' = "poll"
    /\ UNCHANGED pd_ret
    /\ UNCHANGED <<codecVars, cbVars, psVars, hostVars, rxVars, devVars, wrVars, tmVars, fwVars, rcVars>>

\* the device releases the clock, and the main loop polls
PdClockHigh ==
    /\ pd_clk = LOW
    /\ pd_clk' = HIGH
    /\ pd' = Pd_poll(pd, HIGH, pd_data)
    /\ pd_op' = "poll"
    /\ UNCHANGED <<pd_data, pd_ret, g_pd_bits, g_pd_done, g_pd_sent>>
    /\ UNCHANGED <<codecVars, cbVars, psVars, hostVars, rxVars, devVars, wrVars, tmVars, fwVars, rcVars>>

\* a further poll() at the same clock level
PdPoll ==
    /\ pd' = Pd_poll(pd, pd_clk, pd_data)
    /\ pd_op' = "poll"
    /\ UNCHANGED <<pd_clk, pd_data, pd_ret, g_pd_bits, g_pd_done, g_pd_sent>>
    /\ UNCHANGED <<codecVars, cbVars, psVars, hostVars, rxVars, devVars, wrVars, tmVars, fwVars, rcVars>>

PdReadBuffer ==
    /\ pd' = read_buffer(pd).eng
    /\ pd_ret' = read_buffer(pd).result
    /\ pd_op' = "read_buffer"
    /\ g_pd_done' = Invalid
    /\ UNCHANGED <<pd_clk, pd_data, g_pd_bits, g_pd_sent>>
    /\ UNCHANGED <<codecVars, cbVars, psVars, hostVars, rxVars, devVars, wrVars, tmVars, fwVars, rcVars>>

PdNext ==
    \/ PdClockLow
    \/ PdClockHigh
    \/ PdPoll
    \/ PdReadBuffer

-----------------------------------------------------------------------------
(* Interrupt-driven engine receiving from a device: irq() on every edge of  *)
(* the clock the device makes                                              *)

RxInit ==
    /\ g_rx_bits = <<>>
    /\ g_rx_kind = "none"
    /\ g_rx_ready = FALSE

\* a frame of 11 falling edges is in progress
RxInFrame == g_rx_kind # "none" /\ Len(g_rx_bits) < BITS_IN_PS2_WORD

\* the device pulls the clock low with the next bit on the data line; the
\* pin-change interrupt calls irq()
RxFallingEdge ==
    /\ ps.m_last_clk = HIGH
    /\ ps.clk_mode = "input"
    /\ LET kind == IF RxInFrame THEN g_rx_kind
                   ELSE IF g_rx_ready THEN "after"
                   ELSE IF ps.m_state = "Idle" /\ ps.m_in_buffer = <<>>
                   THEN "idle"
                   ELSE "none"
           sofar == IF RxInFrame THEN g_rx_bits ELSE <<>>
           completes == /\ ps.m_state = "ReadingWord"
                        /\ ps.m_current_word_bitmask * 2 = PS2_INCOMING_MASK
       IN  \E dat \in (IF kind = "none" THEN PsDatLevels
                       ELSE IF Len(sofar) \in PsDrivenBits THEN Levels
                       ELSE {LOW}) :
              /\ ps' = irq(ps, now, LOW, dat).eng
              /\ g_rx_kind' = kind
              /\ g_rx_bits' = IF kind = "none" THEN <<>>
                              ELSE Append(sofar, dat)
              /\ g_rx_ready' = completes
    /\ UNCHANGED <<now, psCall, codecVars, cbVars, hostVars, pdVars, devVars, wrVars, tmVars, fwVars, rcVars>>

\* the device releases the clock; the pin-change interrupt calls irq()
RxRisingEdge ==
    /\ ps.m_last_clk = LOW
    /\ ps.clk_mode = "input"
    /\ ps' = irq(ps, now, HIGH, HIGH).eng
    /\ UNCHANGED <<now, psCall, codecVars, cbVars, hostVars, pdVars>>
    /\ UNCHANGED <<rxVars, devVars, wrVars, tmVars, fwVars, rcVars>>

\* the main loop calls readBuffer()
RxReadBuffer ==
    /\ ps' = readBuffer(ps).eng
    /\ g_rx_bits' = <<>>
    /\ g_rx_kind' = "none"
    /\ g_rx_ready' = FALSE
    /\ UNCHANGED <<now, psCall, codecVars, cbVars, hostVars, pdVars, devVars, wrVars, tmVars, fwVars, rcVars>>

RxNext ==
    \/ RxFallingEdge
    \/ RxRisingEdge
    \/ RxReadBuffer

-----------------------------------------------------------------------------
(* Interrupt-driven engine sending to a device that follows the            *)
(* host-to-device handshake; irq() is the pin-change interrupt of the      *)
(* clock line                                                              *)

\* the clock pulses in which the device takes the start bit, the 8 data
\* bits and the parity bit, and on the last of which the host releases the
\* data line
DevClockPulses == 10

DevInit ==
    /\ dev = [phase |-> "idle", n |-> 0]
    /\ dev_clk = HIGH
    /\ dev_dat = HIGH
    /\ irq_pending = FALSE
    /\ poll_pc = "idle"

\* the level of the clock line: low when either side pulls it low
ClockLine(e, clk) == fastDigitalRead(e, PIN_CLK, clk)

\* nothing is half done: no interrupt is waiting and the main loop is not
\* inside pollIdle()
TxQuiet == ~irq_pending /\ poll_pc = "idle"

\* the pin-change interrupt is served: irq() runs, and is raised again when
\* it changed the clock line itself
TxIrq ==
    /\ irq_pending
    /\ ps' = irq(ps, now, dev_clk, dev_dat).eng
    /\ irq_pending' = (ClockLine(ps', dev_clk) # ClockLine(ps, dev_clk))
    /\ UNCHANGED <<dev, dev_clk, dev_dat, poll_pc>>
    /\ UNCHANGED <<now, psCall, codecVars, cbVars, hostVars, pdVars, rxVars, wrVars, tmVars, fwVars, rcVars>>

\* the main loop calls poll().  When poll() starts a transmission it stops
\* after the statement that drives the clock low: the interrupt this raises
\* is served before or after the hold timeout is armed.
TxPoll ==
    /\ TxQuiet
    /\ IF ps.m_state = "Idle" /\ ~RingBuf_isEmpty(ps.m_out_buffer)
       THEN /\ ps' = pollIdle_ClockLow(ps)
            /\ poll_pc' = "arming"
       ELSE /\ ps' = Ps2_poll(ps, now)
            /\ poll_pc' = poll_pc
    /\ irq_pending' = (ClockLine(ps', dev_clk) # ClockLine(ps, dev_clk))
    /\ UNCHANGED <<dev, dev_clk, dev_dat>>
    /\ UNCHANGED <<now, psCall, codecVars, cbVars, hostVars, pdVars, rxVars, wrVars, tmVars, fwVars, rcVars>>

\* pollIdle() goes on: setInternalTimeout( 150 )
TxPollArm ==
    /\ poll_pc = "arming"
    /\ ps' = setInternalTimeout(ps, now, 150)
    /\ poll_pc' = "idle"
    /\ UNCHANGED <<dev, dev_clk, dev_dat, irq_pending>>
    /\ UNCHANGED <<now, psCall, codecVars, cbVars, hostVars, pdVars, rxVars, wrVars, tmVars, fwVars, rcVars>>

\* the application queues data when nothing is waiting
TxWrite ==
    /\ TxQuiet
    /\ RingBuf_isEmpty(ps.m_out_buffer)
    /\ \E n \in 1 .. MaxWriteLen :
          \E data \in [1 .. n -> ApiOutBytes] :
              ps' = writeBuffer(ps, data).eng
    /\ UNCHANGED <<now, psCall, codecVars, cbVars, hostVars, pdVars>>
    /\ UNCHANGED <<rxVars, devVars, wrVars, tmVars, fwVars, rcVars>>

\* the request-to-send: the host has released the clock and holds data low
RequestToSend ==
    /\ ClockLine(ps, dev_clk) = HIGH
    /\ ps.dat_mode = "output" /\ ps.dat_port = LOW

\* the host inhibits the bus by holding the clock low
Inhibited == ps.clk_mode = "output" /\ ps.clk_port = LOW

\* the device makes the falling edge of a clock pulse
DevClockLow ==
    /\ TxQuiet /\ ~Inhibited
    /\ dev_clk = HIGH
    /\ \/ dev.phase = "idle" /\ RequestToSend
       \/ dev.phase = "clocking" /\ dev.n < DevClockPulses
    /\ dev' = [phase |-> "clocking", n |-> dev.n + 1]
    /\ dev_clk' = LOW
    /\ irq_pending' = TRUE
    /\ UNCHANGED <<ps, dev_dat, poll_pc>>
    /\ UNCHANGED <<now, psCall, codecVars, cbVars, hostVars, pdVars, rxVars, wrVars, tmVars, fwVars, rcVars>>

\* the device makes the rising edge of a clock pulse and takes the bit
DevClockHigh ==
    /\ TxQuiet /\ ~Inhibited
    /\ dev.phase = "clocking"
    /\ dev_clk = LOW
    /\ dev' = IF dev.n = DevClockPulses THEN [dev EXCEPT !.phase = "ack"]
              ELSE dev
    /\ dev_clk' = HIGH
    /\ irq_pending' = TRUE
    /\ UNCHANGED <<ps, dev_dat, poll_pc>>
    /\ UNCHANGED <<now, psCall, codecVars, cbVars, hostVars, pdVars, rxVars, wrVars, tmVars, fwVars, rcVars>>

\* the device acknowledges: it brings the data line low
DevAckData ==
    /\ TxQuiet /\ ~Inhibited
    /\ dev.phase = "ack"
    /\ dev' = [dev EXCEPT !.phase = "ackclock"]
    /\ dev_dat' = LOW
    /\ UNCHANGED <<ps, dev_clk, irq_pending, poll_pc>>
    /\ UNCHANGED <<now, psCall, codecVars, cbVars, hostVars, pdVars, rxVars, wrVars, tmVars, fwVars, rcVars>>

\* the device brings the clock low for the acknowledge bit
DevAckClock ==
    /\ TxQuiet /\ ~Inhibited
    /\ dev.phase = "ackclock"
    /\ dev' = [dev EXCEPT !.phase = "release"]
    /\ dev_clk' = LOW
    /\ irq_pending' = TRUE
    /\ UNCHANGED <<ps, dev_dat, poll_pc>>
    /\ UNCHANGED <<now, psCall, codecVars, cbVars, hostVars, pdVars, rxVars, wrVars, tmVars, fwVars, rcVars>>

\* the device releases both lines
DevRelease ==
    /\ TxQuiet /\ ~Inhibited
    /\ dev.phase = "release"
    /\ dev' = [phase |-> "idle", n |-> 0]
    /\ dev_clk' = HIGH
    /\ dev_dat' = HIGH
    /\ irq_pending' = TRUE
    /\ UNCHANGED <<ps, poll_pc>>
    /\ UNCHANGED <<now, psCall, codecVars, cbVars, hostVars, pdVars, rxVars, wrVars, tmVars, fwVars, rcVars>>

DevStep ==
    \/ DevClockLow
    \/ DevClockHigh
    \/ DevAckData
    \/ DevAckClock
    \/ DevRelease

\* the device has a step of the handshake to take
DevBusy ==
    /\ ~Inhibited
    /\ \/ dev.phase = "idle" /\ dev_clk = HIGH /\ RequestToSend
       \/ dev.phase \in {"clocking", "ack", "ackclock", "release"}

\* time passes while nothing is half done and the device has nothing to
\* do: the device keeps the timing of the protocol
TxTick == TxQuiet /\ ~DevBusy /\ Tick

TxNext ==
    \/ TxWrite
    \/ TxPoll
    \/ TxPollArm
    \/ TxIrq
    \/ DevStep
    \/ TxTick

-----------------------------------------------------------------------------
(* Interrupt-driven engine, the course of a transmission: the calls of     *)
(* PsNext, with the passes through WaitClockHigh counted                   *)

WrInit == g_highs = 0

\* the write sub-state of the engine: m_write_state while m_state is
\* WritingWord, m_state otherwise
WriteSubState(e) ==
    IF e.m_state = "WritingWord" THEN e.m_write_state ELSE e.m_state

\* the count after a call that took the engine from e to e2
HighsAfter(e, e2, n) ==
    IF e2.m_state # "WritingWord" THEN 0
    ELSE IF e2.m_write_state = "WaitClockHigh"
            /\ WriteSubState(e) # "WaitClockHigh"
    THEN n + 1
    ELSE n

\* the pin-change interrupt: irq() with the levels of the two lines
WrIrq ==
    /\ \E clk \in Levels, dat \in PsDatLevels :
          ps' = irq(ps, now, clk, dat).eng
    /\ g_highs' = HighsAfter(ps, ps', g_highs)
    /\ UNCHANGED <<now, psCall, codecVars, cbVars, hostVars, pdVars>>
    /\ UNCHANGED <<rxVars, devVars, tmVars, fwVars, rcVars>>

\* the main loop calls poll()
WrPoll ==
    /\ ps' = Ps2_poll(ps, now)
    /\ g_highs' = HighsAfter(ps, ps', g_highs)
    /\ UNCHANGED <<now, psCall, codecVars, cbVars, hostVars, pdVars>>
    /\ UNCHANGED <<rxVars, devVars, tmVars, fwVars, rcVars>>

\* the main loop calls readBuffer()
WrReadBuffer ==
    /\ ps' = readBuffer(ps).eng
    /\ g_highs' = HighsAfter(ps, ps', g_highs)
    /\ UNCHANGED <<now, psCall, codecVars, cbVars, hostVars, pdVars>>
    /\ UNCHANGED <<rxVars, devVars, tmVars, fwVars, rcVars>>

\* the application calls writeBuffer(data, data_len)
WrWriteBuffer ==
    /\ \E n \in 1 .. MaxWriteLen :
          \E data \in [1 .. n -> OutBytes] :
              ps' = writeBuffer(ps, data).eng
    /\ g_highs' = HighsAfter(ps, ps', g_highs)
    /\ UNCHANGED <<now, psCall, codecVars, cbVars, hostVars, pdVars>>
    /\ UNCHANGED <<rxVars, devVars, tmVars, fwVars, rcVars>>

WrDisable ==
    /\ ps' = Ps2_disable(ps)
    /\ g_highs' = HighsAfter(ps, ps', g_highs)
    /\ UNCHANGED <<now, psCall, codecVars, cbVars, hostVars, pdVars>>
    /\ UNCHANGED <<rxVars, devVars, tmVars, fwVars, rcVars>>

WrRenable ==
    /\ ps' = renable(ps)
    /\ g_highs' = HighsAfter(ps, ps', g_highs)
    /\ UNCHANGED <<now, psCall, codecVars, cbVars, hostVars, pdVars>>
    /\ UNCHANGED <<rxVars, devVars, tmVars, fwVars, rcVars>>

WrNext ==
    \/ WrIrq
    \/ WrPoll
    \/ WrReadBuffer
    \/ WrWriteBuffer
    \/ WrDisable
    \/ WrRenable
    \/ Tick

-----------------------------------------------------------------------------
(* Interrupt-driven engine, interrupt against main loop: pollIdle() and    *)
(* readBuffer() run statement by statement with interrupts enabled, and    *)
(* irq() can run between any two statements.  poll_pc names the statement  *)
(* the main loop has just made ("idle": it is in neither function).        *)

\* the values an uninitialized uint8_t can hold
UninitBytes == {0, 237}

\* the objects one statement of pollIdle() can leave, pc being the
\* statement made before it.  m_out_buffer.peek( b ) leaves b as it was
\* when the queue is empty.
pollIdle_Statement(e, pc, t) ==
    CASE pc = "state" -> {[e EXCEPT !.m_write_state = "HoldingClock"]}
      [] pc = "write_state" ->
             {[e EXCEPT !.m_current_word = encodeByte(b)] :
                 b \in IF RingBuf_isEmpty(e.m_out_buffer) THEN UninitBytes
                       ELSE {RingBuf_peek(e.m_out_buffer)}}
      [] pc = "word" -> {[e EXCEPT !.m_current_word_bitmask = 2]}
      [] pc = "mask" -> {fastOutputLow(e, PIN_CLK)}
      [] pc = "clock" -> {setInternalTimeout(e, t, 150)}

\* the statement of pollIdle() that follows pc
pollIdle_After(pc) ==
    CASE pc = "state" -> "write_state"
      [] pc = "write_state" -> "word"
      [] pc = "word" -> "mask"
      [] pc = "mask" -> "clock"
      [] pc = "clock" -> "idle"

\* the pin-change interrupt, at any point of the main loop
AtIrq ==
    /\ \E clk \in Levels, dat \in PsDatLevels :
          ps' = irq(ps, now, clk, dat).eng
    /\ UNCHANGED <<now, psCall, codecVars, cbVars, hostVars, pdVars>>
    /\ UNCHANGED <<rxVars, devVars, wrVars, tmVars, fwVars, rcVars>>

\* the main loop calls poll(); when pollIdle() finds a byte waiting it
\* makes its first statement, m_state = WritingWord
AtPoll ==
    /\ poll_pc = "idle"
    /\ IF ps.m_state = "Idle" /\ ~RingBuf_isEmpty(ps.m_out_buffer)
       THEN /\ ps' = [ps EXCEPT !.m_state = "WritingWord"]
            /\ poll_pc' = "state"
       ELSE /\ ps' = Ps2_poll(ps, now)
            /\ poll_pc' = poll_pc
    /\ UNCHANGED <<dev, dev_clk, dev_dat, irq_pending>>
    /\ UNCHANGED <<now, psCall, codecVars, cbVars, hostVars, pdVars>>
    /\ UNCHANGED <<rxVars, wrVars, tmVars, fwVars, rcVars>>

\* pollIdle() makes its next statement
AtPollIdle ==
    /\ poll_pc \in {"state", "write_state", "word", "mask", "clock"}
    /\ ps' \in pollIdle_Statement(ps, poll_pc, now)
    /\ poll_pc' = pollIdle_After(poll_pc)
    /\ UNCHANGED <<dev, dev_clk, dev_dat, irq_pending>>
    /\ UNCHANGED <<now, psCall, codecVars, cbVars, hostVars, pdVars>>
    /\ UNCHANGED <<rxVars, wrVars, tmVars, fwVars, rcVars>>

\* the main loop calls readBuffer(): up to and including lockedPop()
AtReadBuffer ==
    /\ poll_pc = "idle"
    /\ IF RingBuf_isEmpty(ps.m_in_buffer)
       THEN UNCHANGED <<ps, poll_pc>>
       ELSE /\ ps' = [ps EXCEPT !.m_in_buffer = RingBuf_pop(@)]
            /\ poll_pc' = "popped"
    /\ UNCHANGED <<dev, dev_clk, dev_dat, irq_pending>>
    /\ UNCHANGED <<now, psCall, codecVars, cbVars, hostVars, pdVars>>
    /\ UNCHANGED <<rxVars, wrVars, tmVars, fwVars, rcVars>>

\* readBuffer() goes on: if ( m_state == BufferFull ) renable()
AtReadBufferEnd ==
    /\ poll_pc = "popped"
    /\ ps' = IF ps.m_state = "BufferFull" THEN renable(ps) ELSE ps
    /\ poll_pc' = "idle"
    /\ UNCHANGED <<dev, dev_clk, dev_dat, irq_pending>>
    /\ UNCHANGED <<now, psCall, codecVars, cbVars, hostVars, pdVars>>
    /\ UNCHANGED <<rxVars, wrVars, tmVars, fwVars, rcVars>>

\* the application calls writeBuffer(data, data_len)
AtWriteBuffer ==
    /\ poll_pc = "idle"
    /\ \E n \in 1 .. MaxWriteLen :
          \E data \in [1 .. n -> OutBytes] :
              ps' = writeBuffer(ps, data).eng
    /\ UNCHANGED <<now, psCall, codecVars, cbVars, hostVars, pdVars>>
    /\ UNCHANGED <<rxVars, devVars, wrVars, tmVars, fwVars, rcVars>>

AtNext ==
    \/ AtIrq
    \/ AtPoll
    \/ AtPollIdle
    \/ AtReadBuffer
    \/ AtReadBufferEnd
    \/ AtWriteBuffer
    \/ Tick

-----------------------------------------------------------------------------
(* Interrupt-driven engine, the deadline arithmetic: setInternalTimeout()  *)
(* at one reading of micros() and hasTimedOut() at a later one             *)

\* the readings of micros() & 0xFFFF at which a timeout is armed
TmStarts ==
    {0, 1, 149, 150, 32767, 32768, 33536, 33537, 63035, 63036, 64035,
     65385, 65386, 65435, 65534, 65535}

\* the num_micros armed: those the engine uses and the ends of the range
\* the assert allows
TmDelays == {0, 1, 150, 1500, 2500, 31999}

\* the microseconds gone by when hasTimedOut() is called, for a timeout of
\* d microseconds
TmElapsed(d) ==
    {e \in {0, 1, d - 1, d, d + 1, d + 100, 32767, 32768, d + 32766,
            d + 32767} : 0 <= e /\ e <= d + 32767}

TmInit ==
    /\ tm_eng = PsConstruct
    /\ tm_s = 0
    /\ tm_d = 0
    /\ tm_e = 0
    /\ tm_ret = FALSE
    /\ tm_op = "none"

\* setInternalTimeout( d ) with micros() & 0xFFFF reading s
TmArm ==
    /\ \E s \in TmStarts, d \in TmDelays :
          /\ tm_eng' = setInternalTimeout(PsConstruct, s, d)
          /\ tm_s' = s
          /\ tm_d' = d
    /\ tm_e' = 0
    /\ tm_ret' = FALSE
    /\ tm_op' = "setInternalTimeout"
    /\ UNCHANGED <<codecVars, cbVars, psVars, hostVars, pdVars, rxVars>>
    /\ UNCHANGED <<devVars, wrVars, fwVars, rcVars>>

\* hasTimedOut(), e microseconds after the timeout was armed
TmHasTimedOut ==
    /\ tm_op = "setInternalTimeout"
    /\ \E e \in TmElapsed(tm_d) :
          LET h == Ps2_hasTimedOut(tm_eng, (tm_s + e) % 65536)
          IN  /\ tm_eng' = h.eng
              /\ tm_ret' = h.result
              /\ tm_e' = e
    /\ tm_op' = "hasTimedOut"
    /\ UNCHANGED <<tm_s, tm_d>>
    /\ UNCHANGED <<codecVars, cbVars, psVars, hostVars, pdVars, rxVars>>
    /\ UNCHANGED <<devVars, wrVars, fwVars, rcVars>>

TmNext ==
    \/ TmArm
    \/ TmHasTimedOut

-----------------------------------------------------------------------------
(* v0.9.0 firmware, the receiver: class Ps2<DAT_PIN> of                    *)
(* src/unnamed/part_000.  The member last_time is used only in the test    *)
(* ( now - last_time ) > MAX_DELAY of irq(); the outcome of that test is   *)
(* the input late of Rc_irq.                                               *)

\* the slots of the receive buffer
BUFFER_LEN == 2

ERR_EMPTY == 256
ERR_PARITY == 512
ERR_STATE == 768

\* the bits of a frame at which the device can put the data line high: the
\* first data bit, which makes the byte 1 with odd parity, the byte being
\* 0 with even parity otherwise
RcHighBits == {1}

\* Ps2<DAT_PIN>::Ps2; buffer has static storage and starts zeroed
RcConstruct ==
    [bit_count |-> 0,
     odd_parity |-> FALSE,
     data |-> 0,
     widx |-> 0,
     ridx |-> 0,
     buffer |-> [i \in 0 .. BUFFER_LEN - 1 |-> 0]]

\* Ps2<DAT_PIN>::reset
Rc_reset(e) ==
    [e EXCEPT !.bit_count = 0, !.odd_parity = FALSE, !.data = 0]

\* mutant: the stop bit does not reset the bit count
Rc_irq_NoReset(e, late, dat) ==
    LET e0 == IF late THEN Rc_reset(e) ELSE e
        n == e0.bit_count
        e1 == [e0 EXCEPT !.bit_count = (n + 1) % 256]
    IN  CASE n = 0 -> e1
          [] n \in 1 .. 8 ->
                IF dat # LOW
                THEN [e1 EXCEPT !.data = (e1.data \div 2) + 128,
                                !.odd_parity = ~e1.odd_parity]
                ELSE [e1 EXCEPT !.data = e1.data \div 2]
          [] n = 9 ->
                IF dat # LOW
                THEN [e1 EXCEPT !.odd_parity = ~e1.odd_parity]
                ELSE e1
          [] n = 10 ->
                [e1 EXCEPT
                    !.buffer[e1.widx % BUFFER_LEN] =
                        IF e1.odd_parity THEN e1.data
                        ELSE ERR_PARITY + e1.data,
                    !.widx = (e1.widx + 1) % 256]
          [] OTHER ->
                [e1 EXCEPT !.buffer[e1.widx % BUFFER_LEN] = ERR_STATE,
                           !.widx = (e1.widx + 1) % 256]

\* Ps2<DAT_PIN>::irq, late being ( now - last_time ) > MAX_DELAY and dat
\* the level digitalRead( DAT_PIN ) gives
Rc_irq(e, late, dat) ==
    LET e0 == IF late THEN Rc_reset(e) ELSE e
        n == e0.bit_count
        e1 == [e0 EXCEPT !.bit_count = (n + 1) % 256]
    IN  CASE n = 0 -> e1
          [] n \in 1 .. 8 ->
                IF dat # LOW
                THEN [e1 EXCEPT !.data = (e1.data \div 2) + 128,
                                !.odd_parity = ~e1.odd_parity]
                ELSE [e1 EXCEPT !.data = e1.data \div 2]
          [] n = 9 ->
                IF dat # LOW
                THEN [e1 EXCEPT !.odd_parity = ~e1.odd_parity]
                ELSE e1
          [] n = 10 ->
                Rc_reset(
                    [e1 EXCEPT
                        !.buffer[e1.widx % BUFFER_LEN] =
                            IF e1.odd_parity THEN e1.data
                            ELSE ERR_PARITY + e1.data,
                        !.widx = (e1.widx + 1) % 256])
          [] OTHER ->
                [e1 EXCEPT !.buffer[e1.widx % BUFFER_LEN] = ERR_STATE,
                           !.widx = (e1.widx + 1) % 256]

\* Ps2<DAT_PIN>::read: the object afterwards and the value returned
Rc_read(e) ==
    IF e.ridx # e.widx
    THEN [eng |-> [e EXCEPT !.ridx = (e.ridx + 1) % 256],
          result |-> e.buffer[e.ridx % BUFFER_LEN]]
    ELSE [eng |-> e, result |-> ERR_EMPTY]

RcInit ==
    /\ rc = RcConstruct
    /\ rc_op = "none"
    /\ rc_ret = ERR_EMPTY
    /\ g_unread = <<>>

\* the bit count irq() switches on
RcSwitchValue(e, late) == IF late THEN 0 ELSE e.bit_count

\* a falling edge of the clock: irq(), early or late after the edge before,
\* with the level of the data line.  At most BUFFER_LEN + 1 words are left
\* unread.
RcIrq ==
    /\ Len(g_unread) <= BUFFER_LEN
    /\ \E late \in BOOLEAN :
          \E dat \in (IF RcSwitchValue(rc, late) \in RcHighBits
                      THEN Levels ELSE {LOW}) :
              /\ rc' = Rc_irq(rc, late, dat)
              /\ g_unread' =
                    IF rc'.widx # rc.widx
                    THEN Append(g_unread, rc'.buffer[rc.widx % BUFFER_LEN])
                    ELSE g_unread
    /\ rc_op' = "irq"
    /\ UNCHANGED rc_ret
    /\ UNCHANGED <<codecVars, cbVars, psVars, hostVars, pdVars, rxVars>>
    /\ UNCHANGED <<devVars, wrVars, tmVars, fwVars>>

\* loop() calls read()
RcRead ==
    /\ rc' = Rc_read(rc).eng
    /\ rc_ret' = Rc_read(rc).result
    /\ rc_op' = "read"
    /\ g_unread' = IF g_unread = <<>> THEN g_unread ELSE Tail(g_unread)
    /\ UNCHANGED <<codecVars, cbVars, psVars, hostVars, pdVars, rxVars>>
    /\ UNCHANGED <<devVars, wrVars, tmVars, fwVars>>

\* stop_rx() and start_rx() call reset()
RcReset ==
    /\ rc' = Rc_reset(rc)
    /\ rc_op' = "reset"
    /\ UNCHANGED <<rc_ret, g_unread>>
    /\ UNCHANGED <<codecVars, cbVars, psVars, hostVars, pdVars, rxVars>>
    /\ UNCHANGED <<devVars, wrVars, tmVars, fwVars>>

RcNext ==
    \/ RcIrq
    \/ RcRead
    \/ RcReset

-----------------------------------------------------------------------------
(* v0.9.0 firmware, host commands: stop_rx(), handle_command() and         *)
(* start_rx() of src/unnamed/part_000 as loop() calls them.  A pin is its  *)
(* direction bit and its port bit: an input with the port bit set is       *)
(* pulled up, an output drives the port bit.                               *)

KB_CLK == "KB_CLK"
KB_DAT == "KB_DAT"
MS_CLK == "MS_CLK"
MS_DAT == "MS_DAT"

\* the bytes the host asks to be sent
FwBytes == {0, 237, 244, 255}

\* the result codes of handle_command()
FwResults == 0 .. 13

\* pinMode(pin, INPUT_PULLUP)
pinMode_INPUT_PULLUP(f, pin) ==
    [f EXCEPT !.pins[pin] = [ddr |-> "input", port |-> HIGH]]

\* pinMode(pin, OUTPUT)
pinMode_OUTPUT(f, pin) == [f EXCEPT !.pins[pin].ddr = "output"]

\* digitalWrite(pin, level)
digitalWrite(f, pin, level) == [f EXCEPT !.pins[pin].port = level]

\* the microcontroller after reset and the construction of keyboard and
\* mouse: every pin a floating input, no interrupt attached
FwReset ==
    [pins |-> [p \in {KB_CLK, KB_DAT, MS_CLK, MS_DAT} |->
                  [ddr |-> "input", port |-> LOW]],
     kb_irq |-> FALSE,
     ms_irq |-> FALSE,
     keyboard |-> RcConstruct,
     mouse |-> RcConstruct]

\* stop_rx
stop_rx(f) ==
    LET f1 == pinMode_INPUT_PULLUP(pinMode_INPUT_PULLUP(f, KB_DAT), MS_DAT)
        f2 == [f1 EXCEPT !.kb_irq = FALSE, !.ms_irq = FALSE]
        f3 == pinMode_OUTPUT(digitalWrite(f2, KB_CLK, LOW), KB_CLK)
        f4 == pinMode_OUTPUT(digitalWrite(f3, MS_CLK, LOW), MS_CLK)
    IN  [f4 EXCEPT !.keyboard = Rc_reset(@), !.mouse = Rc_reset(@)]

\* start_rx: its last two statements both name KB_CLK
start_rx(f) ==
    LET f1 == [f EXCEPT !.keyboard = Rc_reset(@), !.mouse = Rc_reset(@)]
        f2 == [f1 EXCEPT !.kb_irq = TRUE, !.ms_irq = TRUE]
        f3 == pinMode_INPUT_PULLUP(pinMode_INPUT_PULLUP(f2, KB_DAT), MS_DAT)
    IN  pinMode_INPUT_PULLUP(pinMode_INPUT_PULLUP(f3, KB_CLK), KB_CLK)

\* odd_parity of handle_command() after the 8 data bits
FwOddParity(data) ==
    Cardinality({i \in 0 .. 7 : bitRead(data, i) = 1}) % 2 = 1

\* handle_command(clk_pin, dat_pin) returning e: the pins it leaves.  The
\* characters the host sends decide between 1, 2, 3 and going on with the
\* byte data; the device decides where a wait_for_level() gives up (for 5
\* and 6 during data bit k) and the level of the ACK bit.
handle_command(f, clk_pin, dat_pin, e, data, k) ==
    LET rts == pinMode_INPUT_PULLUP(
                   pinMode_OUTPUT(digitalWrite(f, dat_pin, LOW), dat_pin),
                   clk_pin)
        released == pinMode_INPUT_PULLUP(rts, dat_pin)
    IN  CASE e \in 1 .. 3 -> f
          [] e = 4 -> rts
          [] e \in 5 .. 6 ->
                digitalWrite(rts, dat_pin,
                             IF bitRead(data, k) = 1 THEN HIGH ELSE LOW)
          [] e \in 7 .. 8 ->
                digitalWrite(rts, dat_pin,
                             IF FwOddParity(data) THEN LOW ELSE HIGH)
          [] e \in 9 .. 10 -> digitalWrite(rts, dat_pin, HIGH)
          [] e \in 11 .. 12 -> released
          [] e \in {0, 13} ->
                pinMode_OUTPUT(digitalWrite(released, clk_pin, LOW), clk_pin)

\* setup() has run: start_rx() on the reset state
FwInit ==
    /\ fw = start_rx(FwReset)
    /\ fw_pc = "loop"
    /\ fw_cmd = [ch |-> "none", byte |-> Invalid]
    /\ fw_e = 0

\* loop() reads the command character 'K' or 'M' and calls stop_rx()
FwStopRx ==
    /\ fw_pc = "loop"
    /\ \E cmd \in {"K", "M"} : fw_cmd' = [ch |-> cmd, byte |-> Invalid]
    /\ fw' = stop_rx(fw)
    /\ fw_e' = 0
    /\ fw_pc' = "stopped"
    /\ UNCHANGED <<codecVars, cbVars, psVars, hostVars, pdVars, rxVars>>
    /\ UNCHANGED <<devVars, wrVars, tmVars, rcVars>>

\* loop() calls handle_command() for the port the command names
FwHandleCommand ==
    /\ fw_pc = "stopped"
    /\ \E e \in FwResults, data \in FwBytes, k \in 0 .. 7 :
          /\ fw' = IF fw_cmd.ch = "K"
                   THEN handle_command(fw, KB_CLK, KB_DAT, e, data, k)
                   ELSE handle_command(fw, MS_CLK, MS_DAT, e, data, k)
          /\ fw_e' = e
          /\ fw_cmd' = [fw_cmd EXCEPT !.byte = IF e \in 1 .. 3 THEN Invalid
                                               ELSE data]
    /\ fw_pc' = "handled"
    /\ UNCHANGED <<codecVars, cbVars, psVars, hostVars, pdVars, rxVars>>
    /\ UNCHANGED <<devVars, wrVars, tmVars, rcVars>>

\* loop() calls start_rx() and reports the result
FwStartRx ==
    /\ fw_pc = "handled"
    /\ fw' = start_rx(fw)
    /\ fw_pc' = "loop"
    /\ UNCHANGED <<fw_cmd, fw_e>>
    /\ UNCHANGED <<codecVars, cbVars, psVars, hostVars, pdVars, rxVars>>
    /\ UNCHANGED <<devVars, wrVars, tmVars, rcVars>>

FwNext ==
    \/ FwStopRx
    \/ FwHandleCommand
    \/ FwStartRx

-----------------------------------------------------------------------------

Init ==
    /\ CodecInit /\ CbInit /\ PsInit /\ HostInit /\ PdInit /\ RxInit
    /\ DevInit /\ WrInit /\ TmInit /\ RcInit /\ FwInit

SpecCodec == Init /\ [][CodecNext]_vars

SpecCb == Init /\ [][CbNext]_vars

Spec == Init /\ [][PsNext]_vars

SpecApi == Init /\ [][ApiNext]_vars

SpecHost == Init /\ [][HostNext]_vars

SpecPoll == Init /\ [][PdNext]_vars

SpecRx == Init /\ [][RxNext]_vars

SpecWr == Init /\ [][WrNext]_vars

SpecAt == Init /\ [][AtNext]_vars

SpecTm == Init /\ [][TmNext]_vars

SpecRc == Init /\ [][RcNext]_vars

SpecFw == Init /\ [][FwNext]_vars

\* The main loop never stops: loop() calls poll() on every pass, many times
\* within any timeout, and micros() keeps advancing.
SpecLive == Init /\ [][PsNext]_vars /\ SF_vars(PsPoll) /\ WF_vars(Tick)

\* The main loop polls for ever, a pending interrupt is served, time
\* advances, and the device takes every step of the handshake that is open
\* to it.
SpecTx ==
    Init /\ [][TxNext]_vars
        /\ WF_vars(TxPoll) /\ WF_vars(TxPollArm) /\ WF_vars(TxIrq)
        /\ WF_vars(TxTick) /\ WF_vars(DevStep)

-----------------------------------------------------------------------------
(* Claims about the codec                                                  *)

\* the number of 1-bits of w among bits lo..hi
OnesIn(w, lo, hi) == Cardinality({i \in lo .. hi : bitRead(w, i) = 1})

\* C1: codec round trip - for every byte b, validateWord(encodeByte(b))
\* returns b and never Invalid.
C1_RoundTrip ==
    cd_op = "roundTrip" => (cd_ret = cd_byte /\ cd_ret # Invalid)

C1_Witness ==
    cd_op = "roundTrip" /\ cd_byte = 170 /\ cd_ret = 170

\* C2: validateWord(w) returns bits 1-8 of w exactly when the start bit is 0,
\* the stop bit is 1 and the number of 1-bits among bits 1-9 is odd; for
\* every other 11-bit word it returns Invalid.
C2_ValidateAcceptance ==
    cd_op = "validateWord" =>
        IF /\ bitRead(cd_word, 0) = 0
           /\ bitRead(cd_word, 10) = 1
           /\ OnesIn(cd_word, 1, 9) % 2 = 1
        THEN cd_ret = (cd_word \div 2) % 256
        ELSE cd_ret = Invalid

C2_Witness ==
    /\ cd_op = "validateWord"
    /\ cd_word = 1542
    /\ cd_ret = 3

\* C3: encodeByte(b) has bit 0 clear, bits 1-8 equal to bits 0-7 of b, bit
\* 10 set, bit 9 making the number of 1-bits among bits 1-9 odd, and no bit
\* above bit 10.
C3_EncodeLayout ==
    cd_op = "encodeByte" =>
        /\ bitRead(cd_word, 0) = 0
        /\ \A i \in 0 .. 7 : bitRead(cd_word, i + 1) = bitRead(cd_byte, i)
        /\ bitRead(cd_word, 10) = 1
        /\ OnesIn(cd_word, 1, 9) % 2 = 1
        /\ cd_word < 2048

C3_Witness ==
    cd_op = "encodeByte" /\ cd_byte = 170 /\ cd_word = 1876

\* C8: flipping any single bit 0..10 of an encoded word makes validateWord
\* return Invalid.
C8_SingleBitCorruption ==
    cd_op = "corrupt" => cd_ret = Invalid

C8_Witness ==
    cd_op = "corrupt" /\ cd_byte = 170 /\ cd_bit = 9 /\ cd_ret = Invalid

-----------------------------------------------------------------------------
(* Claims about the callback-driven engine                                 *)

\* the byte b whose word encodeByte(b) a sequence of 11 levels spells, or
\* Invalid when there is none
FeedByte(feed) ==
    IF Len(feed) = 11
    THEN LET b == (WordOf(feed) \div 2) % 256
         IN  IF encodeByte(b) = WordOf(feed) THEN b ELSE Invalid
    ELSE Invalid

\* C4: from Idle with no byte pending, 11 falling edges carrying bits 0..10
\* of encodeByte(b), with rising edges interleaved, leave the engine in Idle;
\* the next poll() returns b, and a poll() right after that one returns -1.
C4_BitCollection ==
    [][/\ (FeedByte(g_feed') # Invalid => cb'.m_state = "Idle")
       /\ (FeedByte(g_feed) # Invalid /\ cb_op' = "poll"
              => cb_ret' = FeedByte(g_feed) /\ cb'.m_state = "Idle")
       /\ (cb_op = "poll" /\ cb_op' = "poll" => cb_ret' = Invalid)]_vars

C4_Witness ==
    cb_op = "poll" /\ cb_ret = 2 /\ cb.m_state = "Idle" /\ ~g_aborted

\* C5: after the first k (1..10) falling edges of a word and then more
\* poll() calls than the bit timeout with no further edge, the engine is no
\* longer reading the word.
C5_TimeoutAbandonment ==
    cb.m_state = "ReadingWord" => g_quiet <= BitTimeoutPolls

\* C6: every byte poll() returns is validateWord(w) of a word w whose 11 bits
\* were sampled on 11 falling edges of one uninterrupted ReadingWord episode;
\* no bit of an abandoned word contributes.
C6_NoPartialByte ==
    [][cb_op' = "poll" /\ cb_ret' >= 0 => cb_ret' = g_clean_byte]_vars

C6_Witness ==
    g_aborted /\ cb_op = "poll" /\ cb_ret = 1

\* C7: poll() returns the byte of the most recent word that passed
\* validation since the previous poll(), and -1 only when none did; a later
\* word that fails validation does not erase it.
C7_PollResult ==
    [][cb_op' = "poll" => cb_ret' = g_last_valid]_vars

-----------------------------------------------------------------------------
(* Claims about the interrupt-driven engine                                *)

ClockDrivenLow(e) == e.clk_mode = "output" /\ e.clk_port = LOW
ClockReleased(e) == e.clk_mode = "input" /\ e.clk_port = HIGH

\* C9: when irq() pushes a byte that makes the inbound queue full, the state
\* becomes BufferFull and the clock line is driven low; while BufferFull,
\* irq() and poll() leave the inbound queue and the state as they are; a
\* readBuffer() call that returns a byte while BufferFull leaves the engine
\* in Idle with the clock line released.
C9_BufferBackpressure ==
    [][/\ (/\ PsIrq
           /\ Len(ps.m_in_buffer) < IN_BUFFER_SIZE
           /\ Len(ps'.m_in_buffer) = IN_BUFFER_SIZE)
              => (ps'.m_state = "BufferFull" /\ ClockDrivenLow(ps'))
       /\ (ps.m_state = "BufferFull" /\ (PsIrq \/ PsPoll))
              => (/\ ps'.m_in_buffer = ps.m_in_buffer
                  /\ ps'.m_state = "BufferFull")
       /\ (/\ ps.m_state = "BufferFull"
           /\ PsReadBuffer
           /\ readBuffer(ps).result # Invalid)
              => (/\ ps'.m_state = "Idle"
                  /\ ClockReleased(ps')
                  /\ Len(ps'.m_in_buffer) = Len(ps.m_in_buffer) - 1)]_vars

C9_Witness ==
    /\ ps.m_state = "BufferFull"
    /\ Len(ps.m_in_buffer) = IN_BUFFER_SIZE
    /\ ClockDrivenLow(ps)

\* C10: in every reachable state, an irq() call that pushes a validated byte
\* finds the inbound queue not already full, so the push is never refused.
C10_NoByteDropped ==
    \A clk \in Levels, dat \in PsDatLevels :
        irq(ps, now, clk, dat).push # "rejected"

\* C11: writeBuffer(data, n) is all-or-nothing - when n plus the size of the
\* outbound queue exceeds its capacity the call returns false and the queue is
\* unchanged; otherwise the n bytes are appended in order to the back of the
\* queue and the call returns true.
C11_WriteAllOrNothing ==
    [][\A data \in [1 .. ps_arg' -> ApiOutBytes] :
          (/\ ps_op' = "writeBuffer"
           /\ ps' = writeBuffer(ps, data).eng
           /\ UNCHANGED now) =>
              IF Len(data) + Len(ps.m_out_buffer) > OUT_BUFFER_SIZE
              THEN /\ ps_ret' = FALSE
                   /\ ps'.m_out_buffer = ps.m_out_buffer
              ELSE /\ ps_ret' = TRUE
                   /\ ps'.m_out_buffer = ps.m_out_buffer \o data]_vars

\* C12: readBuffer() returns -1 and changes nothing when the inbound queue is
\* empty; otherwise it removes and returns the oldest byte.  Nothing else
\* removes or reorders bytes, and only an irq() that validated a word appends
\* one, at the back: bytes are read in the order they were validated, once.
C12_ReadFifo ==
    [][/\ ApiReadBuffer =>
              IF ps.m_in_buffer = <<>>
              THEN ps_ret' = Invalid /\ ps' = ps
              ELSE /\ ps_ret' = Head(ps.m_in_buffer)
                   /\ ps'.m_in_buffer = Tail(ps.m_in_buffer)
       /\ (~ApiReadBuffer /\ ps'.m_in_buffer # ps.m_in_buffer) =>
              /\ Len(ps'.m_in_buffer) = Len(ps.m_in_buffer) + 1
              /\ SubSeq(ps'.m_in_buffer, 1, Len(ps.m_in_buffer)) = ps.m_in_buffer
              /\ \E clk \in Levels, dat \in Levels :
                     /\ irq(ps, now, clk, dat).push = "stored"
                     /\ ps' = irq(ps, now, clk, dat).eng]_vars

C12_Witness ==
    /\ ps_op = "readBuffer"
    /\ ps_ret = 1
    /\ ps.m_in_buffer = <<0>>

DataReleased(e) == e.dat_mode = "input" /\ e.dat_port = HIGH

C15_TransmitTimeoutAbort ==
    [][(ps.m_state = "WritingWord" /\ PsPoll) =>
          IF ~ps.m_internal_timeout /\ Int16(ps.m_timeout - now) <= 0
          THEN /\ ps'.m_state = "Idle"
               /\ ClockReleased(ps')
               /\ DataReleased(ps')
               /\ ps'.m_current_word = 0
               /\ ps'.m_current_word_bitmask = 1
               /\ ps'.m_out_buffer = ps.m_out_buffer
          ELSE ps' = ps]_vars

C15_Witness ==
    /\ ps.m_state = "Idle"
    /\ ps.m_write_state = "WaitClockHigh"
    /\ ps.m_timeout = 0
    /\ ~ps.m_internal_timeout
    /\ ps.m_out_buffer # <<>>

\* C16: no wait is unbounded - if from some point on the device produces no
\* clock edge (irq() changes nothing any more) while poll() keeps being
\* called and time advances, the engine does not stay active (ReadingWord or
\* WritingWord) for ever.
C16_NoUnboundedWait ==
    <>[][~PsIrq]_vars => []<>(~isActive(ps))

\* C17: disable(), in any state, drives the clock line low and leaves state
\* Disabled, current word 0 and the cursor at its initial position; while
\* Disabled, irq() and poll() leave state, current word, cursor and both
\* queues as they are; nothing but renable() leaves Disabled, and it leaves
\* the engine in Idle with both lines released.
C17_DisableCancels ==
    [][/\ PsDisable =>
              /\ ps'.m_state = "Disabled"
              /\ ClockDrivenLow(ps')
              /\ ps'.m_current_word = 0
              /\ ps'.m_current_word_bitmask = 1
       /\ (ps.m_state = "Disabled" /\ (PsIrq \/ PsPoll)) =>
              /\ ps'.m_state = "Disabled"
              /\ ps'.m_current_word = ps.m_current_word
              /\ ps'.m_current_word_bitmask = ps.m_current_word_bitmask
              /\ ps'.m_in_buffer = ps.m_in_buffer
              /\ ps'.m_out_buffer = ps.m_out_buffer
       /\ (ps.m_state = "Disabled" /\ ps'.m_state # "Disabled") =>
              /\ ps' = renable(ps)
              /\ ps'.m_state = "Idle"
              /\ ClockReleased(ps')
              /\ DataReleased(ps')]_vars

C17_Witness ==
    /\ ps.m_state = "Disabled"
    /\ ps.m_write_state = "WaitClockHigh"
    /\ ps.dat_mode = "output"
    /\ ps.m_current_word = 0
    /\ ps.m_out_buffer # <<>>

-----------------------------------------------------------------------------
(* Claims about disable() and enable() of the callback-driven engine       *)

\* enable() leaves the engine in Idle, and an edge delivered while Disabled
\* changes nothing
EnableAndDisabledEdges ==
    /\ CbEnable => cb'.m_state = "Idle"
    /\ (cb.m_state = "Disabled" /\ (CbRisingEdge \/ CbFallingEdge)) =>
           cb' = cb

-----------------------------------------------------------------------------
(* Claims about the host command parser                                    *)

\* the byte two hexadecimal digits spell
HexByte(hi, lo) == 16 * HexNibble(hi) + HexNibble(lo)

\* C19: the CR or LF that ends a well-formed 'Kxx' frame enqueues xx on the
\* keyboard engine and leaves the mouse engine alone; the one that ends a
\* well-formed 'Mxx' frame enqueues xx on the mouse engine and leaves the
\* keyboard engine alone.
C19_CommandRouting ==
    [][\A inputChar \in {"CR", "LF"} :
          (HostInputChar(inputChar) /\ Len(g_frame) = 3) =>
              LET xx == HexByte(g_frame[2], g_frame[3])
              IN  IF g_frame[1] = "K"
                  THEN /\ gKeyboard'.m_out_buffer =
                              RingBuf_push(gKeyboard.m_out_buffer,
                                           OUT_BUFFER_SIZE, xx)
                       /\ gMouse' = gMouse
                  ELSE /\ gMouse'.m_out_buffer =
                              RingBuf_push(gMouse.m_out_buffer,
                                           OUT_BUFFER_SIZE, xx)
                       /\ gKeyboard' = gKeyboard]_vars

-----------------------------------------------------------------------------
(* Poll-driven engine (SpecPoll)                                           *)

\* C21: poll-driven engine - whenever the engine is Idle with the clock
\* high, freshly constructed or after earlier words, 11 clock cycles that
\* carry bits 0..10 of encodeByte(b) in their low phases, polled at least
\* once per clock level, make the next read_buffer() return b.
C21_PollReceive ==
    [][(PdReadBuffer /\ g_pd_done # Invalid) => pd_ret' = g_pd_done]_vars

-----------------------------------------------------------------------------
(* Callback-driven engine, bit timeout and idle state (SpecCb)             *)

\* C22: callback-driven engine - every falling edge, the start-bit edge
\* taken in Idle included, arms the bit timeout afresh: poll() aborts a word
\* in ReadingWord only when at least the bit timeout's number of poll()
\* calls have been made since the most recent falling edge of that word.
C22_TimeoutArmedByEveryEdge ==
    [][(CbPoll /\ cb.m_state = "ReadingWord" /\ cb'.m_state = "Idle")
          => g_polls' >= BitTimeoutPolls]_vars

\* C23: callback-driven engine - the 11th falling edge of a word that fails
\* validateWord, fed from Idle, leaves the engine in Idle with no byte
\* pending and its pins untouched (no retry, no error signal), and poll()
\* returns no byte until another word has completed.
C23_InvalidWordDropped ==
    [][/\ (/\ CbFallingEdge
           /\ cb.m_state = "ReadingWord"
           /\ Len(g_bits) = 10
           /\ g_clean_byte' = Invalid)
          => (/\ cb'.m_state = "Idle"
              /\ cb'.m_valid_word = Invalid
              /\ cb'.clock = cb.clock
              /\ cb'.data = cb.data)
       /\ (CbPoll /\ g_clean_byte = Invalid) => cb_ret' = Invalid]_vars

\* an 11-edge word that fails validation has just been completed
C23_Witness ==
    /\ cb_op = "clockEdge"
    /\ cb.m_state = "Idle"
    /\ cb.m_current_word_bitmask = PS2_INCOMING_MASK
    /\ validateWord(cb.m_current_word) = Invalid
    /\ cb.m_current_word # 0
    /\ g_polls = 0
    /\ g_bits = <<>>
    /\ g_clean_byte = Invalid

\* C24: callback-driven engine - in every reachable state with state Idle
\* the accumulator m_current_word is 0 and the cursor
\* m_current_word_bitmask is 1.
C24_IdleCleared ==
    cb.m_state = "Idle"
        => (cb.m_current_word = 0 /\ cb.m_current_word_bitmask = 1)

-----------------------------------------------------------------------------
(* Interrupt-driven engine receiving (SpecRx)                              *)

\* C25: interrupt-driven engine - from Idle with an empty inbound queue, 11
\* successive falling edges whose data levels are bits 0..10 of
\* encodeByte(b), the first edge's level being bit 0, leave exactly the one
\* byte b in the inbound queue.
C25_IrqReceive ==
    (/\ g_rx_kind = "idle"
     /\ Len(g_rx_bits) = BITS_IN_PS2_WORD
     /\ PdWordByte(g_rx_bits) # Invalid)
        => ps.m_in_buffer = <<PdWordByte(g_rx_bits)>>

\* C26: interrupt-driven engine - after any complete 11-bit word, validated
\* or not, the engine is back in Idle with the accumulator cleared and the
\* cursor reset, and a following valid word encodeByte(b) is queued as
\* exactly b.
C26_SelfHealing ==
    /\ g_rx_ready
          => (/\ ps.m_state \in {"Idle", "BufferFull"}
              /\ ps.m_current_word = 0
              /\ ps.m_current_word_bitmask = 1)
    /\ (/\ g_rx_kind = "after"
        /\ Len(g_rx_bits) = BITS_IN_PS2_WORD
        /\ PdWordByte(g_rx_bits) # Invalid)
          => (/\ ps.m_in_buffer # <<>>
              /\ ps.m_in_buffer[Len(ps.m_in_buffer)] = PdWordByte(g_rx_bits))

-----------------------------------------------------------------------------
(* Interrupt-driven engine, invariants of the state (Spec)                 *)

\* C27: interrupt-driven engine - in every state reachable by irq, poll,
\* readBuffer, writeBuffer, disable and renable calls, state is BufferFull
\* exactly when the inbound queue is full.
C27_BufferFullIffFull ==
    ps.m_state = "BufferFull"
        <=> RingBuf_isFull(ps.m_in_buffer, IN_BUFFER_SIZE)

\* C28: interrupt-driven engine - while the clock is held (WritingWord,
\* HoldingClock) an internal timeout is pending; in ReadingWord and in every
\* other write sub-state an external timeout is pending, that is,
\* m_internal_timeout is false.
C28_DeadlineKind ==
    /\ (ps.m_state = "WritingWord" /\ ps.m_write_state = "HoldingClock")
          => ps.m_internal_timeout
    /\ (\/ ps.m_state = "ReadingWord"
        \/ ps.m_state = "WritingWord" /\ ps.m_write_state # "HoldingClock")
          => ~ps.m_internal_timeout

-----------------------------------------------------------------------------
(* Interrupt-driven engine sending to a device (SpecTx, Spec)              *)

\* C29: interrupt-driven engine - when a byte is in the outbound queue and
\* the engine is Idle, poll() is called repeatedly, irq() runs on every
\* change of the clock line and the device follows the host-to-device
\* handshake, the byte is eventually removed from the outbound queue and
\* the engine is Idle again.
C29_EventuallySent ==
    (ps.m_state = "Idle" /\ ps.m_out_buffer # <<>>)
        ~> (ps.m_state = "Idle" /\ ps.m_out_buffer = <<>>)

-----------------------------------------------------------------------------
(* Claims about the course of a transmission                               *)

\* the order of the write sub-states
WriteOrder ==
    {<<"HoldingClock", "WaitClockLow">>,
     <<"WaitClockLow", "WaitClockHigh">>,
     <<"WaitClockHigh", "WaitClockLow">>,
     <<"WaitClockLow", "WaitDataLow">>,
     <<"WaitDataLow", "WaitFinalClockLow">>,
     <<"WaitFinalClockLow", "WaitForRelease">>,
     <<"WaitForRelease", "Idle">>}

\* a transmission completes: the byte sent leaves the outbound queue
WrCompletes == Len(ps'.m_out_buffer) < Len(ps.m_out_buffer)

C32_MinimumClockHold ==
    [][(/\ ps.m_state = "WritingWord"
        /\ ps'.m_state = "WritingWord"
        /\ ps.m_write_state = "HoldingClock"
        /\ ClockDrivenLow(ps)
        /\ \/ ~ClockDrivenLow(ps')
           \/ ps'.dat_mode = "output" /\ ps'.dat_port = LOW) =>
           /\ poll_pc = "idle"
           /\ ps.m_internal_timeout
           /\ Int16(ps.m_timeout - now) <= 0]_vars

-----------------------------------------------------------------------------
(* Claims about the interrupt and the main loop                            *)

\* C33: irq() never acts on a half-updated state: when it runs while
\* pollIdle() is part-way through setting up a transmission, or while
\* readBuffer() is between its pop and its renable(), and the engine is in
\* WritingWord or BufferFull, it changes nothing but its memory of the
\* clock level - it does not move the write sub-state, touch the pins or
\* the deadline, or pop the outbound byte.
C33_IrqAtomicity ==
    [][(/\ poll_pc # "idle"
        /\ poll_pc' = poll_pc
        /\ ps.m_state \in {"WritingWord", "BufferFull"}) =>
           ps' = [ps EXCEPT !.m_last_clk = ps'.m_last_clk]]_vars

-----------------------------------------------------------------------------
(* Claims about the deadline arithmetic                                    *)

\* C34: after a timeout of d microseconds (d < 32000) is armed at time s,
\* hasTimedOut() called e microseconds later (0 <= e <= d + 32767)
\* returns true exactly when e >= d, also when s + d wraps past 65535.
C34_WrappingDeadline ==
    tm_op = "hasTimedOut" => (tm_ret <=> tm_e >= tm_d)

\* a deadline that wrapped past 65535 has been found expired at the very
\* microsecond it fell due
C34_Witness ==
    /\ tm_op = "hasTimedOut"
    /\ tm_s + tm_d > 65535
    /\ tm_d > 0
    /\ tm_e = tm_d
    /\ tm_ret

-----------------------------------------------------------------------------
(* Claims about the edges and the cursor of the callback-driven engine     *)

\* C35: a clockEdge() call with EDGE_RISING, in any state and with either
\* data level, leaves the engine - state, accumulator, cursor, pending byte,
\* timeout and pins - as it was.
C35_RisingEdgeIgnored ==
    [][CbRisingEdge => cb' = cb]_vars

\* a rising edge has been reported inside a word, after a poll() that
\* counted the bit timeout down
C35_Witness ==
    /\ cb_op = "clockEdge"
    /\ cb.m_state = "ReadingWord"
    /\ g_polls > 0
    /\ g_quiet = 0

-----------------------------------------------------------------------------
(* Claims about the ownership of the data line                             *)

\* C36: the engine drives the data line only during a transmission: in
\* every reachable state with m_state Idle, ReadingWord, BufferFull or
\* Disabled the data line is a pulled-up input.
C36_DataLineOwnership ==
    ps.m_state \in {"Idle", "ReadingWord", "BufferFull", "Disabled"} =>
        DataReleased(ps)

\* C37: in every reachable state with m_state ReadingWord the cursor is a
\* single bit at a position between 1 and 10 and the accumulator has no bit
\* set at or above that position; the accumulator never has a bit set above
\* bit 10.
C37_CursorInvariant ==
    /\ cb.m_state = "ReadingWord" =>
          /\ \E i \in 1 .. 10 : cb.m_current_word_bitmask = 2 ^ i
          /\ cb.m_current_word < cb.m_current_word_bitmask
    /\ cb.m_current_word < 2 ^ 11

\* a word is being read with the cursor on the stop bit and the start bit,
\* a data bit and the parity bit sampled high
C37_Witness ==
    /\ cb.m_state = "ReadingWord"
    /\ cb.m_current_word_bitmask = 2 ^ STOP_BIT
    /\ bitRead(cb.m_current_word, START_BIT) = 1
    /\ bitRead(cb.m_current_word, FIRST_DATA_BIT) = 1
    /\ bitRead(cb.m_current_word, PARITY_BIT) = 1

-----------------------------------------------------------------------------
(* Claims about the v0.9.0 firmware                                        *)

\* a pin released as a pulled-up input
PulledUp(f, pin) ==
    f.pins[pin].ddr = "input" /\ f.pins[pin].port = HIGH

\* C38: after every host 'K' or 'M' command has been processed, whatever
\* result code handle_command() returned, both ports are in the PS/2 idle
\* electrical state: the four lines are pulled-up inputs and both
\* falling-edge interrupt handlers are attached.
C38_IdleAfterCommand ==
    (fw_pc = "loop" /\ fw_cmd.ch \in {"K", "M"}) =>
        /\ \A pin \in {KB_CLK, KB_DAT, MS_CLK, MS_DAT} : PulledUp(fw, pin)
        /\ fw.kb_irq /\ fw.ms_irq

\* C39: every word stored by irq() is returned by read() exactly once and
\* in the order stored, and read() returns ERR_EMPTY exactly when no stored
\* word is unread.
C39_RingBufferFifo ==
    [][RcRead =>
          rc_ret' = IF g_unread = <<>> THEN ERR_EMPTY ELSE Head(g_unread)]_vars

\* C40: at the switch in irq() the bit counter is between 0 and 10, so the
\* default branch, which stores ERR_STATE, is never executed.
C40_BitCounterRange ==
    /\ rc.bit_count \in 0 .. 10
    /\ \A i \in 0 .. BUFFER_LEN - 1 : rc.buffer[i] # ERR_STATE
    /\ \A i \in 1 .. Len(g_unread) : g_unread[i] # ERR_STATE

\* the second word has just been stored by the edge of its stop bit, the
\* switch having been made on a bit count of 10
C40_Witness ==
    /\ rc_op = "irq"
    /\ rc.bit_count = 0
    /\ rc.widx = 2
    /\ g_unread # <<>>

=============================================================================
